---- MODULE Spec2Model ----
(***************************************************************************)
(* State-machine model of the CoinMarketCap data-access layer:             *)
(* CoinMarketCapClient (src/src/api/coinmarketcap.py): the request cache,  *)
(* the retry loop of _make_request and the wall clock it stamps with; the   *)
(* listing and symbol lookups built on it; the chain registry               *)
(* (src/src/utils/chains.py); and the tool handlers and the tool router of  *)
(* the server (src/src/server.py).                                          *)
(***************************************************************************)
EXTENDS Integers, Sequences, FiniteSets, TLC

\* ------------------------------------------------------------------ bounds
\* The wall clock advances in steps of TickStep seconds up to MaxTime.
TickStep == 30
MaxTime == 120
\* Number of distinct well-formed upstream payloads.
NumPayloads == 2
\* Longest listing upstream answers a symbol lookup with.
MaxListingLen == 3
\* The clock stops at Horizon while client methods and tool calls are followed.
Horizon == 60

\* ------------------------------------------------------- program constants
\* self._cache_ttl = timedelta(seconds=60)
CacheTtl == 60
\* max_retries = 3
MaxRetries == 3

\* Invocations of _make_request (asyncio tasks).  The request-handling loop
\* runs one tool call at a time: the serial tasks are those it runs.
Tasks == {1, 2}
SerialTasks == {1}

\* ------------------------------------------------------------ JSON values
\* A decoded response body: its JSON type, its members (the keys of an
\* object, the elements of an array, the substrings of a string) and, for an
\* envelope, which payload it is.
Envelope(n) == [type |-> "object", members |-> {"data", "status"}, id |-> n]
JsonNull == [type |-> "null", members |-> {}, id |-> 0]

\* The bodies upstream answers with: envelopes, an object without "data", an
\* array holding "data", a JSON string that has "data" as a substring (such as
\* "No data available"), an empty array, null, and a body that is not JSON at
\* all (response.json() raises).
Bodies ==
    {Envelope(n) : n \in 1..NumPayloads}
      \cup {[type |-> "object", members |-> {"status"}, id |-> 0],
            [type |-> "array", members |-> {"data"}, id |-> 0],
            [type |-> "string", members |-> {"data"}, id |-> 0],
            [type |-> "array", members |-> {}, id |-> 0],
            JsonNull,
            [type |-> "invalid", members |-> {}, id |-> 0]}

\* Python's  'data' in data : key membership for a dict, element membership
\* for a list, substring test for a str, TypeError for None.
PyContainsData(data) ==
    CASE data.type \in {"object", "array", "string"} ->
             IF "data" \in data.members THEN "yes" ELSE "no"
      [] OTHER -> "TypeError"

\* Python truthiness of a decoded body (if cached:).
Truthy(data) ==
    CASE data.type \in {"object", "array", "string"} -> data.members # {}
      [] OTHER -> FALSE

\* The body is a JSON object with a top-level "data" field.
HasDataField(data) == data.type = "object" /\ "data" \in data.members

\* ------------------------------------------------------------- cache keys
Endpoints == {"/cryptocurrency/listing"}

\* Parameter names, in the order Python's sorted() puts these strings.
SortedNames ==
    <<"audited", "aux", "convert", "cryptoType", "limit", "platformId", "sortBy",
      "sortType", "start", "tagType">>
RankOf ==
    [k \in {SortedNames[i] : i \in 1..Len(SortedNames)} |->
        CHOOSE i \in 1..Len(SortedNames) : SortedNames[i] = k]

Item(k, v) == [k |-> k, v |-> v]

\* f"{v}" : the decimal digits of an int (the values of limit, platformId and
\* start), the characters of a str (the values of the other parameters).
PyStr(item) ==
    IF item.k \in {"limit", "platformId", "start"} THEN ToString(item.v) ELSE item.v

\* Insert one (k, v) item into a list sorted by k.
RECURSIVE InsertSorted(_, _)
InsertSorted(item, s) ==
    IF s = <<>> THEN <<item>>
    ELSE IF RankOf[item.k] < RankOf[Head(s).k] THEN <<item>> \o s
    ELSE LET tail == InsertSorted(item, Tail(s))
         IN <<Head(s)>> \o tail

\* sorted(params.items())
RECURSIVE SortedItems(_)
SortedItems(params) ==
    IF params = <<>> THEN <<>>
    ELSE LET rest == SortedItems(Tail(params))
         IN InsertSorted(Head(params), rest)

\* "&".join(f"{k}={v}" for k, v in items)
RECURSIVE JoinItems(_)
JoinItems(items) ==
    IF items = <<>> THEN ""
    ELSE IF Len(items) = 1 THEN Head(items).k \o "=" \o PyStr(Head(items))
    ELSE Head(items).k \o "=" \o PyStr(Head(items)) \o "&" \o JoinItems(Tail(items))

\* The key built from the items in insertion order, without sorted().
GetCacheKey_Unsorted(endpoint, params) == endpoint \o "?" \o JoinItems(params)

\* The key built without the platformId item.
GetCacheKey_NoPlatform(endpoint, params) ==
    endpoint \o "?"
      \o JoinItems(SortedItems(SelectSeq(params, LAMBDA item : item.k # "platformId")))

\* CoinMarketCapClient._get_cache_key
GetCacheKey(endpoint, params) == endpoint \o "?" \o JoinItems(SortedItems(params))

\* A Python dict is an insertion-ordered list of items without repeated names.
\* The dicts with the name-value pairs of the map m, in every insertion order:
Orders(S) ==
    {s \in [1..Cardinality(S) -> S] : \A i, j \in 1..Cardinality(S) : i # j => s[i] # s[j]}
DictsOf(m) == Orders({Item(k, m[k]) : k \in DOMAIN m})

\* The dict as a set of name-value pairs (dict equality ignores order).
Pairs(params) == {params[i] : i \in 1..Len(params)}

\* The parameter dicts requests are made with.
ParamDicts ==
    DictsOf(("limit" :> 500) @@ ("start" :> 1)) \cup DictsOf(("limit" :> 100) @@ ("start" :> 1))

\* Every dict over the parameter names, for the key function alone.
AllParamDicts ==
    UNION {DictsOf(m) :
           m \in UNION {[D -> {1, 500}] : D \in SUBSET {"limit", "platformId", "start"}}}

\* ------------------------------------------ the params dict of a listing
ListingEndpoint == "/cryptocurrency/listing"
\* "limit": min(limit, 500)
ListingCap == 500
DefaultStart == 1
DefaultSort == "volume_24h"
AuxFields ==
    "ath,atl,high24h,low24h,num_market_pairs,cmc_rank,date_added,max_supply,circulating_supply,total_supply,volume_7d,volume_30d"
\* platform_id=None: like 0 it is false in  if platform_id:
NoPlatform == 0

\* The params dict with the limit passed on as given.
ListingParams_NoClamp(start, limit, sort_by, platform_id) ==
    <<Item("start", start), Item("limit", limit), Item("sortBy", sort_by),
      Item("sortType", "desc"), Item("convert", "USD"), Item("cryptoType", "all"),
      Item("tagType", "all"), Item("audited", "false"), Item("aux", AuxFields)>>
      \o (IF platform_id # NoPlatform THEN <<Item("platformId", platform_id)>> ELSE <<>>)

\* The params dict of get_cryptocurrency_listing, in insertion order.
ListingParams(start, limit, sort_by, platform_id) ==
    <<Item("start", start), Item("limit", IF limit < ListingCap THEN limit ELSE ListingCap), Item("sortBy", sort_by),
      Item("sortType", "desc"), Item("convert", "USD"), Item("cryptoType", "all"),
      Item("tagType", "all"), Item("audited", "false"), Item("aux", AuxFields)>>
      \o (IF platform_id # NoPlatform THEN <<Item("platformId", platform_id)>> ELSE <<>>)

\* ------------------------------------------------------- chain registry
\* CHAINS, in insertion order: the order  for k, chain in CHAINS.items()
\* visits.  A key is a str, the list of its characters.
Chain(key, id, name, symbol) == [key |-> key, id |-> id, name |-> name, symbol |-> symbol]
CHAINS ==
    <<Chain(<<"e", "t", "h", "e", "r", "e", "u", "m">>, 1027, "Ethereum", "ETH"),
      Chain(<<"b", "a", "s", "e">>, 199, "Base", "ETH"),
      Chain(<<"s", "o", "l", "a", "n", "a">>, 5426, "Solana", "SOL"),
      Chain(<<"p", "o", "l", "y", "g", "o", "n">>, 3890, "Polygon", "MATIC"),
      Chain(<<"a", "r", "b", "i", "t", "r", "u", "m">>, 11841, "Arbitrum", "ETH"),
      Chain(<<"o", "p", "t", "i", "m", "i", "s", "m">>, 11840, "Optimism", "ETH"),
      Chain(<<"a", "v", "a", "l", "a", "n", "c", "h", "e">>, 5805, "Avalanche C-Chain", "AVAX"),
      Chain(<<"b", "n", "b">>, 1839, "BNB Chain", "BNB")>>

\* The limits and platforms listings are requested with: by the callers of
\* the client, by its lookups (limit=500), by handle_compare_chains (10 by
\* default, at most 50) and by handle_list_tokens (20 by default, at most 100).
LookupLimit == 500
DefaultCompareLimit == 10
MaxCompareLimit == 50
DefaultListLimit == 20
MaxListLimit == 100
Limits == {100, 500, 1000}
PlatformIds == {NoPlatform, 199}
ListingDicts ==
    {ListingParams(DefaultStart, l, DefaultSort, p) :
        l \in Limits \cup {LookupLimit, DefaultCompareLimit, MaxCompareLimit, DefaultListLimit},
        p \in PlatformIds \cup {CHAINS[i].id : i \in 1..Len(CHAINS)}}

\* The cache key of every (endpoint, dict) a request is made with, tabulated.
RECURSIVE KeyTable(_)
KeyTable(S) ==
    IF S = {} THEN <<>>
    ELSE LET x == CHOOSE x \in S : TRUE
         IN (x :> GetCacheKey(x[1], x[2])) @@ KeyTable(S \ {x})
CacheKeyOf == KeyTable(Endpoints \X (ParamDicts \cup ListingDicts))

\* ------------------------------------------------------ upstream responses
\* What one  await self.session.get(url, params=params)  can produce: an HTTP
\* response, an httpx.RequestError (timeout, connection reset, DNS failure),
\* or some other exception.
Http(status, body) == [kind |-> "response", status |-> status, body |-> body]
RequestError == [kind |-> "RequestError", status |-> 0, body |-> JsonNull]
Responses ==
    {Http(200, b) : b \in Bodies}
      \cup {Http(s, JsonNull) : s \in {302, 400, 404, 499, 500, 503}}
      \cup {RequestError, [kind |-> "Exception", status |-> 0, body |-> JsonNull]}

\* The exception the try body raises for a response ("none": it reaches
\* _set_cache).  raise_for_status() raises HTTPStatusError unless the status
\* is 2xx.  A CoinMarketCapAPIError raised in the try body for a missing
\* 'data', a TypeError of the membership test and a failure of json() are all
\* caught by  except Exception.
TryBodyRaises(resp) ==
    IF resp.kind # "response" THEN resp.kind
    ELSE IF ~(200 <= resp.status /\ resp.status < 300) THEN "HTTPStatusError"
    ELSE IF resp.body.type = "invalid" THEN "Exception"
    ELSE IF PyContainsData(resp.body) # "yes" THEN "Exception"
    ELSE "none"

\* The range check with a strict lower bound: 400 is not a client error.
IsClientError_Exclusive(status) == 400 < status /\ status < 500

\* if 400 <= e.response.status_code < 500
IsClientError(status) == 400 <= status /\ status < 500

\* The final-attempt test off by one: no attempt is ever the final one.
IsLastAttempt_OffByOne(a) == a = MaxRetries

\* if attempt == max_retries - 1
IsLastAttempt(a) == a = MaxRetries - 1

\* A linear backoff: 0 s, 1 s, 2 s.
Backoff_Linear(a) == a

\* await asyncio.sleep(2 ** attempt)
Backoff(a) == 2 ^ a

\* One message for every failure of the final attempt.
TerminalMsg_Uniform(exc) == "Unexpected error"

\* The message of the CoinMarketCapAPIError raised on the final attempt.
TerminalMsg(exc) ==
    CASE exc = "HTTPStatusError" -> "Server error after 3 attempts"
      [] exc = "RequestError" -> "Network error after 3 attempts"
      [] OTHER -> "Unexpected error"

\* ------------------------------------------------------------------ cache
\* The comparison the wrong way round: fresh entries expire, old ones stay.
IsFresh_Inverted(t, timestamp) == t - timestamp > CacheTtl

\* The comparison with <= : an entry of age exactly the TTL is still returned.
IsFresh_Inclusive(t, timestamp) == t - timestamp <= CacheTtl

\* if datetime.now() - timestamp < self._cache_ttl
IsFresh(t, timestamp) == t - timestamp < CacheTtl

\* The expired entry left in place.
Remove_Nothing(c, key) == c

\* del self._cache[key]
Remove(c, key) == [k \in DOMAIN c \ {key} |-> c[k]]

\* CoinMarketCapClient._get_from_cache at time t: the value returned (found,
\* data), the cache it leaves, and which branch it took.
GetFromCache(c, key, t) ==
    IF key \in DOMAIN c
    THEN IF IsFresh(t, c[key].timestamp)
         THEN [found |-> TRUE, data |-> c[key].data, cache |-> c,
               outcome |-> "hit", age |-> t - c[key].timestamp,
               timestamp |-> c[key].timestamp]
         ELSE [found |-> FALSE, data |-> JsonNull, cache |-> Remove(c, key),
               outcome |-> "expired", age |-> t - c[key].timestamp,
               timestamp |-> c[key].timestamp]
    ELSE [found |-> FALSE, data |-> JsonNull, cache |-> c,
          outcome |-> "miss", age |-> 0, timestamp |-> 0]

\* _set_cache that replaces the payload of an entry and keeps its timestamp.
SetCache_KeepsStamp(c, key, data, t) ==
    (key :> [data |-> data, timestamp |-> IF key \in DOMAIN c THEN c[key].timestamp ELSE t])
      @@ c

\* _set_cache that leaves an entry that is already there.
SetCache_FirstWins(c, key, data, t) ==
    IF key \in DOMAIN c THEN c ELSE (key :> [data |-> data, timestamp |-> t]) @@ c

\* _set_cache that stores nothing.
SetCache_Skip(c, key, data, t) == c

\* _set_cache whose timestamp is evaluated once, at start-up (a default
\* argument  ts=datetime.now() ).
SetCache_StampAtStart(c, key, data, t) == (key :> [data |-> data, timestamp |-> 0]) @@ c

\* CoinMarketCapClient._set_cache at time t
SetCache(c, key, data, t) == (key :> [data |-> data, timestamp |-> t]) @@ c

\* ------------------------------------------------------------------ state
VARIABLES
    now,      \* datetime.now(), in seconds
    cache,    \* self._cache: cache key -> [data, timestamp]
    pc,       \* per task: "idle", "await" (session.get in flight), "sleep", "done"
    req,      \* per task: the arguments of _make_request and its cache_key
    lookup,   \* per task: what the initial _get_from_cache found
    attempt,  \* per task: the loop variable of the retry loop
    calls,    \* per task: session.get calls issued by this invocation
    slept,    \* per task: the durations passed to asyncio.sleep, in order
    wakeAt,   \* per task: when the running asyncio.sleep ends
    result,   \* per task: what the invocation returned or raised
    last,     \* per task: what the current attempt's session.get produced
    lastFetch,\* the most recent successful fetch: its request, payload and time
    tool      \* the caller of the client: the running client method or tool call

vars == <<now, cache, pc, req, lookup, attempt, calls, slept, wakeAt, result,
          last, lastFetch, tool>>

NoReq == [endpoint |-> "", params |-> <<>>, cache_key |-> ""]
NoLookup == [outcome |-> "none", age |-> 0, timestamp |-> 0]
NoResp == [kind |-> "none", status |-> 0, body |-> JsonNull]
NoFetch == [endpoint |-> "", params |-> <<>>, data |-> JsonNull, at |-> 0]
\* What a client method or a tool call has produced so far.
NoOut == [kind |-> "pending"]
\* prev: what is remembered of an earlier call, for comparison with this one.
NoPrev == [known |-> FALSE]
NoTool == [op |-> "none", args |-> <<>>, out |-> NoOut, prev |-> NoPrev]
NoResult == [kind |-> "none", data |-> JsonNull, msg |-> "", status |-> 0, at |-> 0]
Returned(data, t) == [kind |-> "return", data |-> data, msg |-> "", status |-> 0, at |-> t]
Raised(msg, status, t) ==
    [kind |-> "raise", data |-> JsonNull, msg |-> msg, status |-> status, at |-> t]

Init ==
    /\ now = 0
    /\ cache = <<>>
    /\ pc = [t \in Tasks |-> "idle"]
    /\ req = [t \in Tasks |-> NoReq]
    /\ lookup = [t \in Tasks |-> NoLookup]
    /\ attempt = [t \in Tasks |-> 0]
    /\ calls = [t \in Tasks |-> 0]
    /\ slept = [t \in Tasks |-> <<>>]
    /\ wakeAt = [t \in Tasks |-> 0]
    /\ result = [t \in Tasks |-> NoResult]
    /\ last = [t \in Tasks |-> NoResp]
    /\ lastFetch = NoFetch
    /\ tool = NoTool

\* Time passes.
Tick ==
    /\ now + TickStep <= MaxTime
    /\ now' = now + TickStep
    /\ UNCHANGED <<cache, pc, req, lookup, attempt, calls, slept, wakeAt, result,
                   last, lastFetch>>

\* _make_request(endpoint, params) up to its first suspension point: the cache
\* key, the cache lookup, and either the return of the cached value or the
\* first session.get.
MakeRequest(t, endpoint, params) ==
    /\ pc[t] = "idle"
    /\ LET cache_key == CacheKeyOf[<<endpoint, params>>]
           got == GetFromCache(cache, cache_key, now)
       IN /\ req' = [req EXCEPT ![t] = [endpoint |-> endpoint, params |-> params,
                                        cache_key |-> cache_key]]
          /\ lookup' = [lookup EXCEPT ![t] = [outcome |-> got.outcome, age |-> got.age,
                                              timestamp |-> got.timestamp]]
          /\ cache' = got.cache
          /\ IF got.found /\ Truthy(got.data)
             THEN /\ pc' = [pc EXCEPT ![t] = "done"]
                  /\ result' = [result EXCEPT ![t] = Returned(got.data, now)]
                  /\ calls' = [calls EXCEPT ![t] = 0]
             ELSE /\ pc' = [pc EXCEPT ![t] = "await"]
                  /\ result' = [result EXCEPT ![t] = NoResult]
                  /\ calls' = [calls EXCEPT ![t] = 1]
    /\ attempt' = [attempt EXCEPT ![t] = 0]
    /\ slept' = [slept EXCEPT ![t] = <<>>]
    /\ last' = [last EXCEPT ![t] = NoResp]
    /\ UNCHANGED <<now, wakeAt, lastFetch>>

\* The awaited session.get of task t completes with resp; the rest of the loop
\* body runs up to the next suspension point or the end of the invocation.
Respond(t, resp) ==
    /\ pc[t] = "await"
    /\ LET exc == TryBodyRaises(resp)
       IN IF exc = "none"
          THEN \* self._set_cache(cache_key, data); return data
               /\ cache' = SetCache(cache, req[t].cache_key, resp.body, now)
               /\ pc' = [pc EXCEPT ![t] = "done"]
               /\ result' = [result EXCEPT ![t] = Returned(resp.body, now)]
               /\ lastFetch' = [endpoint |-> req[t].endpoint, params |-> req[t].params,
                                data |-> resp.body, at |-> now]
               /\ UNCHANGED <<slept, wakeAt>>
          ELSE IF exc = "HTTPStatusError" /\ IsClientError(resp.status)
          THEN /\ pc' = [pc EXCEPT ![t] = "done"]
               /\ result' = [result EXCEPT ![t] = Raised("Client error", resp.status, now)]
               /\ UNCHANGED <<cache, slept, wakeAt, lastFetch>>
          ELSE IF IsLastAttempt(attempt[t])
          THEN /\ pc' = [pc EXCEPT ![t] = "done"]
               /\ result' = [result EXCEPT ![t] = Raised(TerminalMsg(exc), resp.status, now)]
               /\ UNCHANGED <<cache, slept, wakeAt, lastFetch>>
          ELSE \* except ...: back off, then the next iteration
               /\ pc' = [pc EXCEPT ![t] = "sleep"]
               /\ slept' = [slept EXCEPT ![t] = Append(@, Backoff(attempt[t]))]
               /\ wakeAt' = [wakeAt EXCEPT ![t] = now + Backoff(attempt[t])]
               /\ UNCHANGED <<cache, result, lastFetch>>
    /\ last' = [last EXCEPT ![t] = resp]
    /\ UNCHANGED <<now, req, lookup, attempt, calls>>

\* asyncio.sleep returns once its duration has passed; the loop goes to its
\* next iteration and issues the next session.get, or ends.
Wake(t) ==
    /\ pc[t] = "sleep"
    /\ now >= wakeAt[t]
    /\ IF attempt[t] + 1 < MaxRetries
       THEN /\ attempt' = [attempt EXCEPT ![t] = @ + 1]
            /\ calls' = [calls EXCEPT ![t] = @ + 1]
            /\ pc' = [pc EXCEPT ![t] = "await"]
            /\ UNCHANGED result
       ELSE \* raise CoinMarketCapAPIError("Max retries exceeded")
            /\ pc' = [pc EXCEPT ![t] = "done"]
            /\ result' = [result EXCEPT ![t] = Raised("Max retries exceeded", 0, now)]
            /\ UNCHANGED <<attempt, calls>>
    /\ last' = [last EXCEPT ![t] = NoResp]
    /\ UNCHANGED <<now, cache, req, lookup, slept, wakeAt, lastFetch>>

\* The caller takes the result; the task is free for the next invocation.
Finish(t) ==
    /\ pc[t] = "done"
    /\ pc' = [pc EXCEPT ![t] = "idle"]
    /\ req' = [req EXCEPT ![t] = NoReq]
    /\ lookup' = [lookup EXCEPT ![t] = NoLookup]
    /\ attempt' = [attempt EXCEPT ![t] = 0]
    /\ calls' = [calls EXCEPT ![t] = 0]
    /\ slept' = [slept EXCEPT ![t] = <<>>]
    /\ wakeAt' = [wakeAt EXCEPT ![t] = 0]
    /\ result' = [result EXCEPT ![t] = NoResult]
    /\ last' = [last EXCEPT ![t] = NoResp]
    /\ UNCHANGED <<now, cache, lastFetch>>

\* _make_request called directly, by a caller that keeps no state of its own.
Next ==
    /\ \/ Tick
       \/ \E t \in SerialTasks, e \in Endpoints, p \in ParamDicts : MakeRequest(t, e, p)
       \/ \E t \in SerialTasks, r \in Responses : Respond(t, r)
       \/ \E t \in SerialTasks : Wake(t)
       \/ \E t \in SerialTasks : Finish(t)
    /\ UNCHANGED tool

Spec == Init /\ [][Next]_vars

\* ------------------------------------------------------------- termination
\* The client under the conditions that let an invocation run to its end: an
\* awaited session.get completes (with a response or an exception), an
\* asyncio.sleep returns once its duration has passed, and the clock advances.
\* So that the bounded clock does not run out under a running invocation, a
\* request starts only while the clock leaves room for its two sleeps, and the
\* clock steps between invocations or to end a sleep.
FairTick ==
    /\ \A t \in SerialTasks :
          pc[t] \in {"idle", "done"} \/ (pc[t] = "sleep" /\ now < wakeAt[t])
    /\ Tick
    /\ UNCHANGED tool

FairNext ==
    /\ \/ FairTick
       \/ \E t \in SerialTasks, e \in Endpoints, p \in ParamDicts :
             now + 2 * TickStep <= MaxTime /\ MakeRequest(t, e, p)
       \/ \E t \in SerialTasks, r \in Responses : Respond(t, r)
       \/ \E t \in SerialTasks : Wake(t)
       \/ \E t \in SerialTasks : Finish(t)
    /\ UNCHANGED tool

FairSpec ==
    /\ Init /\ [][FairNext]_vars
    /\ WF_vars(FairTick)
    /\ \A t \in SerialTasks :
          /\ WF_vars((\E r \in Responses : Respond(t, r)) /\ UNCHANGED tool)
          /\ WF_vars(Wake(t) /\ UNCHANGED tool)

\* ------------------------------------------------------------- concurrency
\* Two invocations of _make_request on one client, interleaved at their
\* suspension points (the awaited session.get, the backoff sleep): the event
\* loop runs one coroutine at a time and switches only at an await.  Upstream
\* answers with one of two envelopes, a server error or a client error.
ConcurrentNext ==
    /\ \/ now + TickStep <= Horizon /\ Tick
       \/ \E t \in Tasks, e \in Endpoints, p \in ParamDicts : MakeRequest(t, e, p)
       \/ \E t \in Tasks,
             r \in {Http(200, Envelope(1)), Http(200, Envelope(2)),
                    Http(500, JsonNull), Http(404, JsonNull)} : Respond(t, r)
       \/ \E t \in Tasks : Wake(t)
       \/ \E t \in Tasks : Finish(t)
    /\ UNCHANGED tool

ConcurrentSpec == Init /\ [][ConcurrentNext]_vars

\* ------------------------------------------------------------ cancellation
\* What a cancelled task gets at its suspension point instead of a response.
CancelledError == [kind |-> "CancelledError", status |-> 0, body |-> JsonNull]

\* The cancellation handled by  except Exception  like any other error of an
\* attempt: retried after a sleep, or reported after the last attempt.
Cancel_CaughtAsException(t) ==
    /\ pc[t] \in {"await", "sleep"}
    /\ IF pc[t] = "await" /\ ~IsLastAttempt(attempt[t])
       THEN /\ pc' = [pc EXCEPT ![t] = "sleep"]
            /\ slept' = [slept EXCEPT ![t] = Append(@, Backoff(attempt[t]))]
            /\ wakeAt' = [wakeAt EXCEPT ![t] = now + Backoff(attempt[t])]
            /\ UNCHANGED result
       ELSE /\ pc' = [pc EXCEPT ![t] = "done"]
            /\ result' = [result EXCEPT ![t] = Raised(TerminalMsg("Exception"), 0, now)]
            /\ UNCHANGED <<slept, wakeAt>>
    /\ last' = [last EXCEPT ![t] = CancelledError]
    /\ UNCHANGED <<now, cache, req, lookup, attempt, calls, lastFetch>>

\* The task running _make_request is cancelled while it awaits session.get or
\* asyncio.sleep: asyncio.CancelledError is raised at the await.  It derives
\* from BaseException, so none of the except clauses of the loop catches it
\* and it leaves _make_request before _set_cache and before any other attempt.
Cancel(t) ==
    /\ pc[t] \in {"await", "sleep"}
    /\ pc' = [pc EXCEPT ![t] = "done"]
    /\ result' = [result EXCEPT ![t] = Raised("CancelledError", 0, now)]
    /\ last' = [last EXCEPT ![t] = CancelledError]
    /\ UNCHANGED <<now, cache, req, lookup, attempt, calls, slept, wakeAt, lastFetch>>

CancelNext ==
    \/ Next
    \/ (\E t \in SerialTasks : Cancel(t)) /\ UNCHANGED tool

CancelSpec == Init /\ [][CancelNext]_vars

\* ------------------------------------------------- token records, listings
\* A str is the list of its characters.  str.upper() maps the letters a-z to
\* A-Z and leaves every other character as it is.
LowerCase ==
    <<"a", "b", "c", "d", "e", "f", "g", "h", "i", "j", "k", "l", "m", "n", "o", "p",
      "q", "r", "s", "t", "u", "v", "w", "x", "y", "z">>
UpperCase ==
    <<"A", "B", "C", "D", "E", "F", "G", "H", "I", "J", "K", "L", "M", "N", "O", "P",
      "Q", "R", "S", "T", "U", "V", "W", "X", "Y", "Z">>
RECURSIVE ZipCase(_, _, _)
ZipCase(from, to, n) ==
    IF n = 0 THEN <<>> ELSE (from[n] :> to[n]) @@ ZipCase(from, to, n - 1)
UpperOf == ZipCase(LowerCase, UpperCase, Len(LowerCase))
StrUpper(str) ==
    [i \in 1..Len(str) |-> IF str[i] \in DOMAIN UpperOf THEN UpperOf[str[i]] ELSE str[i]]
\* str.lower() maps the letters A-Z to a-z and leaves every other character.
LowerOf == ZipCase(UpperCase, LowerCase, Len(UpperCase))
StrLower(str) ==
    [i \in 1..Len(str) |-> IF str[i] \in DOMAIN LowerOf THEN LowerOf[str[i]] ELSE str[i]]

\* A token record is a dict of the upstream listing; a field may be absent.
\* token.get("symbol", "")
SymbolOf(token) == IF "symbol" \in DOMAIN token THEN token.symbol ELSE <<>>

\* The body of a listing response: an envelope whose data object carries the
\* list l as its cryptoCurrencyList.
ListingEnvelope(l) == [type |-> "object", members |-> {"data", "status"}, id |-> l]

\* response.get("data", {}).get("cryptoCurrencyList", []) : a list or a str has
\* no get method.
ExtractListing(data) ==
    IF data.type # "object" THEN [kind |-> "raise", exc |-> "AttributeError", value |-> <<>>]
    ELSE IF "data" \in data.members
         THEN [kind |-> "return", exc |-> "", value |-> data.id]
         ELSE [kind |-> "return", exc |-> "", value |-> <<>>]

\* ------------------------- CoinMarketCapClient.get_cryptocurrency_listing
\* What a client method built on _make_request makes of the result of
\* _make_request: an exception propagates, a payload is unwrapped.
ListingOutcome(res) ==
    IF res.kind = "raise"
    THEN [kind |-> "raise", exc |-> "CoinMarketCapAPIError", value |-> <<>>]
    ELSE ExtractListing(res.data)

\* get_cryptocurrency_listing(start, limit, sort_by, platform_id) up to the
\* first suspension point of its _make_request.
GetCryptocurrencyListing(t, start, limit, sort_by, platform_id) ==
    /\ MakeRequest(t, ListingEndpoint, ListingParams(start, limit, sort_by, platform_id))
    /\ tool' = [op |-> "get_cryptocurrency_listing",
                args |-> [start |-> start, limit |-> limit, sort_by |-> sort_by,
                          platform_id |-> platform_id],
                out |-> NoOut, prev |-> tool.prev]

\* _make_request is over: get_cryptocurrency_listing returns the list or lets
\* the exception through.
ListingReturn(t) ==
    /\ tool.op = "get_cryptocurrency_listing"
    /\ Finish(t)
    /\ tool' = [tool EXCEPT
                  !.out = ListingOutcome(result[t]),
                  !.prev = IF result[t].kind = "return" /\ calls[t] > 0
                           THEN [known |-> TRUE, args |-> tool.args]
                           ELSE @]

\* What upstream answers to a listing request.
ListingResponses ==
    {Http(200, ListingEnvelope(<<>>)),
     Http(200, ListingEnvelope(<<[id |-> 1, symbol |-> <<"E", "T", "H">>]>>)),
     Http(404, JsonNull), Http(500, JsonNull)}

ListingNext ==
    \/ now + TickStep <= Horizon /\ Tick /\ UNCHANGED tool
    \/ \E t \in SerialTasks, limit \in Limits, platform_id \in PlatformIds :
          GetCryptocurrencyListing(t, DefaultStart, limit, DefaultSort, platform_id)
    \/ \E t \in SerialTasks, r \in ListingResponses : Respond(t, r) /\ UNCHANGED tool
    \/ \E t \in SerialTasks : Wake(t) /\ UNCHANGED tool
    \/ \E t \in SerialTasks : ListingReturn(t)

ListingSpec == Init /\ [][ListingNext]_vars

\* Listing calls for no platform and for two registered chains, against an
\* upstream that applies the platformId filter of the request it answers: the
\* listing it sends holds one token whose id tells the platform the call in
\* progress asked for (0 for the unfiltered listing).
PlatformListing(platform_id) ==
    ListingEnvelope(<<[id |-> platform_id, symbol |-> <<"E", "T", "H">>]>>)
PlatformNext ==
    \/ now + TickStep <= Horizon /\ Tick /\ UNCHANGED tool
    \/ \E t \in SerialTasks, platform_id \in {NoPlatform, CHAINS[1].id, CHAINS[2].id} :
          GetCryptocurrencyListing(t, DefaultStart, LookupLimit, DefaultSort, platform_id)
    \/ \E t \in SerialTasks :
          /\ pc[t] = "await"
          /\ \E r \in {Http(200, PlatformListing(tool.args.platform_id)), Http(500, JsonNull)} :
                Respond(t, r)
          /\ UNCHANGED tool
    \/ \E t \in SerialTasks : Wake(t) /\ UNCHANGED tool
    \/ \E t \in SerialTasks : ListingReturn(t)

PlatformSpec == Init /\ [][PlatformNext]_vars

\* ------------------------------- CoinMarketCapClient.get_token_by_symbol
\* An Optional[Dict] is a list of at most one dict: <<>> is None.
None == <<>>

\* The scan comparing the symbols as they are, without upper().
RECURSIVE ScanForSymbol_CaseSensitive(_, _)
ScanForSymbol_CaseSensitive(listings, symbol) ==
    IF listings = <<>> THEN None
    ELSE IF SymbolOf(Head(listings)) = symbol THEN <<Head(listings)>>
    ELSE ScanForSymbol_CaseSensitive(Tail(listings), symbol)

\* symbol_upper = symbol.upper()
\* for token in listings:
\*     if token.get("symbol", "").upper() == symbol_upper: return token
\* return None
RECURSIVE ScanForSymbol(_, _)
ScanForSymbol(listings, symbol) ==
    IF listings = <<>> THEN None
    ELSE IF StrUpper(SymbolOf(Head(listings))) = StrUpper(symbol) THEN <<Head(listings)>>
    ELSE ScanForSymbol(Tail(listings), symbol)

\* What get_token_by_symbol makes of the outcome of the listing call.
TokenOutcome(listing, symbol) ==
    IF listing.kind = "raise" THEN listing
    ELSE [kind |-> "return", exc |-> "", value |-> ScanForSymbol(listing.value, symbol)]

\* get_token_by_symbol(symbol, platform_id) up to the first suspension point.
\* prev remembers the call before this one: its arguments, the outcome of
\* its listing call (seen) and its own outcome.
GetTokenBySymbol(t, symbol, platform_id) ==
    /\ MakeRequest(t, ListingEndpoint,
                   ListingParams(DefaultStart, LookupLimit, DefaultSort, platform_id))
    /\ tool' = [op |-> "get_token_by_symbol",
                args |-> [symbol |-> symbol, platform_id |-> platform_id],
                seen |-> NoOut, out |-> NoOut,
                prev |-> IF tool.op = "get_token_by_symbol"
                         THEN [known |-> TRUE, args |-> tool.args, seen |-> tool.seen,
                               out |-> tool.out]
                         ELSE NoPrev]

\* The listing call is over: the scan runs and get_token_by_symbol returns.
TokenReturn(t) ==
    /\ tool.op = "get_token_by_symbol"
    /\ Finish(t)
    /\ tool' = [tool EXCEPT
                  !.seen = ListingOutcome(result[t]),
                  !.out = TokenOutcome(ListingOutcome(result[t]), tool.args.symbol)]

\* The records and listings upstream answers a lookup with, and the symbols
\* looked up.
Token(id, symbol) == [id |-> id, symbol |-> symbol]
LookupTokens ==
    {Token(1, <<"E", "T", "H">>), Token(2, <<"e", "t", "h">>), Token(3, <<"B", "T", "C">>),
     [id |-> 4], Token(5, <<"E", "T", "H">>)}
LookupSymbols ==
    {<<"E", "T", "H">>, <<"e", "t", "h">>, <<"E", "t", "h">>, <<"b", "t", "c">>, <<"E", "T">>}
LookupResponses ==
    {Http(200, ListingEnvelope(l)) : l \in UNION {[1..n -> LookupTokens] : n \in 0..MaxListingLen}}
      \cup {Http(404, JsonNull)}

TokenNext ==
    \/ \E t \in SerialTasks, symbol \in LookupSymbols :
          GetTokenBySymbol(t, symbol, CHAINS[2].id)
    \/ \E t \in SerialTasks, r \in LookupResponses : Respond(t, r) /\ UNCHANGED tool
    \/ \E t \in SerialTasks : TokenReturn(t)

TokenSpec == Init /\ [][TokenNext]_vars

\* ------------------------------- CoinMarketCapClient.get_multiple_tokens
\* The first match of each requested symbol, in the order of the input.
RECURSIVE FilterBySymbols_FirstOfEach(_, _)
FilterBySymbols_FirstOfEach(listings, symbols) ==
    IF symbols = <<>> THEN <<>>
    ELSE ScanForSymbol(listings, Head(symbols))
           \o FilterBySymbols_FirstOfEach(listings, Tail(symbols))

\* symbols_upper = [s.upper() for s in symbols]
\* for token in listings:
\*     if token.get("symbol", "").upper() in symbols_upper: results.append(token)
RECURSIVE FilterBySymbols(_, _)
FilterBySymbols(listings, symbols) ==
    IF listings = <<>> THEN <<>>
    ELSE LET symbols_upper == {StrUpper(symbols[i]) : i \in 1..Len(symbols)}
             rest == FilterBySymbols(Tail(listings), symbols)
         IN IF StrUpper(SymbolOf(Head(listings))) \in symbols_upper
            THEN <<Head(listings)>> \o rest
            ELSE rest

\* What get_multiple_tokens makes of the outcome of the listing call.
TokensOutcome(listing, symbols) ==
    IF listing.kind = "raise" THEN listing
    ELSE [kind |-> "return", exc |-> "", value |-> FilterBySymbols(listing.value, symbols)]

\* get_multiple_tokens(symbols, platform_id) up to the first suspension point.
\* prev remembers the call before this one, as in GetTokenBySymbol.
GetMultipleTokens(t, symbols, platform_id) ==
    /\ MakeRequest(t, ListingEndpoint,
                   ListingParams(DefaultStart, LookupLimit, DefaultSort, platform_id))
    /\ tool' = [op |-> "get_multiple_tokens",
                args |-> [symbols |-> symbols, platform_id |-> platform_id],
                seen |-> NoOut, out |-> NoOut,
                prev |-> IF tool.op = "get_multiple_tokens"
                         THEN [known |-> TRUE, args |-> tool.args, seen |-> tool.seen,
                               out |-> tool.out]
                         ELSE NoPrev]

\* The listing call is over: the filter runs and get_multiple_tokens returns.
TokensReturn(t) ==
    /\ tool.op = "get_multiple_tokens"
    /\ Finish(t)
    /\ tool' = [tool EXCEPT
                  !.seen = ListingOutcome(result[t]),
                  !.out = TokensOutcome(ListingOutcome(result[t]), tool.args.symbols)]

\* The lists of symbols looked up together.
LookupSymbolLists ==
    {<<<<"e", "t", "h">>>>,
     <<<<"E", "T", "H">>, <<"b", "t", "c">>>>,
     <<<<"B", "T", "C">>, <<"E", "t", "h">>>>,
     <<<<"E", "T">>, <<"b", "t", "c">>, <<"b", "t", "c">>>>}

TokensNext ==
    \/ \E t \in SerialTasks, symbols \in LookupSymbolLists :
          GetMultipleTokens(t, symbols, CHAINS[2].id)
    \/ \E t \in SerialTasks, r \in LookupResponses : Respond(t, r) /\ UNCHANGED tool
    \/ \E t \in SerialTasks : TokensReturn(t)

TokensSpec == Init /\ [][TokensNext]_vars

\* -------------------------------------------------------- tool arguments
\* An argument value of a tool call, as decoded from JSON: a str (the list of
\* its characters), an int, null, or a list of values.
Str(chars) == [type |-> "str", chars |-> chars]
IntArg(n) == [type |-> "int", n |-> n]
NullArg == [type |-> "null"]
ListArg(items) == [type |-> "list", items |-> items]

\* What a function produces: a value, or an exception of class exc.
Ok(value) == [kind |-> "return", exc |-> "", value |-> value]
Raise(exc) == [kind |-> "raise", exc |-> exc, value |-> <<>>]

\* Python truthiness of an argument value (not symbol).
ArgTruthy(v) ==
    CASE v.type = "str" -> v.chars # <<>>
      [] v.type = "int" -> v.n # 0
      [] v.type = "list" -> v.items # <<>>
      [] OTHER -> FALSE

\* str.strip(): without the leading and the trailing whitespace (blank, tab,
\* newline).
RECURSIVE LStrip(_)
LStrip(str) ==
    IF str # <<>> /\ Head(str) \in {" ", "\t", "\n"} THEN LStrip(Tail(str)) ELSE str
RECURSIVE RStrip(_)
RStrip(str) ==
    IF str # <<>> /\ str[Len(str)] \in {" ", "\t", "\n"}
    THEN RStrip(SubSeq(str, 1, Len(str) - 1))
    ELSE str
Strip(str) == RStrip(LStrip(str))

\* The characters of  ^[A-Z0-9\-]+$
Digits == {"0", "1", "2", "3", "4", "5", "6", "7", "8", "9"}
\* if len(symbol) < 1 or len(symbol) > 20
MaxSymbolLen == 20

\* validators.validate_symbol
ValidateSymbol(v) ==
    IF ~ArgTruthy(v) \/ v.type # "str" THEN Raise("ValidationError")
    ELSE LET symbol == StrUpper(Strip(v.chars))
         IN IF Len(symbol) < 1 \/ Len(symbol) > MaxSymbolLen THEN Raise("ValidationError")
            ELSE IF \E i \in 1..Len(symbol) : symbol[i] \notin {UpperCase[j] : j \in 1..Len(UpperCase)} \cup Digits \cup {"-"}
            THEN Raise("ValidationError")
            ELSE Ok(symbol)

\* args["symbol"] : KeyError when the key is missing.
ArgOf(args, name) == IF name \in DOMAIN args THEN Ok(args[name]) ELSE Raise("KeyError")

\* ----------------------------------------------- formatters.format_token_info
\* quotes = token.get("quotes", [{}])[0] : IndexError on an empty list.
\* "price_raw": quotes.get("price", 0).  Prices are in thousandths of a dollar.
FormatTokenInfo(token) ==
    IF "quotes" \in DOMAIN token /\ token.quotes = <<>> THEN Raise("IndexError")
    ELSE LET quotes == IF "quotes" \in DOMAIN token THEN token.quotes[1] ELSE [none |-> 0]
         IN Ok([symbol |-> SymbolOf(token),
                price_raw |-> IF "price" \in DOMAIN quotes THEN quotes.price ELSE 0])

\* ------------------------------ server.handle_search_token_across_chains
\* max(prices), min(prices)
MaxOf(prices) ==
    CHOOSE x \in {prices[i] : i \in 1..Len(prices)} :
        \A i \in 1..Len(prices) : prices[i] <= x
MinOf(prices) ==
    CHOOSE x \in {prices[i] : i \in 1..Len(prices)} :
        \A i \in 1..Len(prices) : x <= prices[i]

\* a / b rounded to the nearest.  (d / l) * 100 as printed by
\* f"{diff_pct:.2f}" is RoundDiv(10000 * d, l) hundredths of a per cent.
RoundDiv(a, b) == (2 * a + b) \div (2 * b)

NoAnalysis == [present |-> FALSE, highest |-> 0, lowest |-> 0, diff_pct |-> 0]

\* The analysis that divides whenever the lowest price is not negative.
PriceAnalysis_Unguarded(prices) ==
    LET highest == MaxOf(prices)
        lowest == MinOf(prices)
    IN IF lowest = 0 THEN Raise("ZeroDivisionError")
       ELSE Ok([present |-> TRUE, highest |-> highest, lowest |-> lowest,
                diff_pct |-> RoundDiv(10000 * (highest - lowest), lowest)])

\* highest = max(prices); lowest = min(prices)
\* diff_pct = ((highest - lowest) / lowest) * 100 if lowest > 0 else 0
PriceAnalysis(prices) ==
    LET highest == MaxOf(prices)
        lowest == MinOf(prices)
    IN Ok([present |-> TRUE, highest |-> highest, lowest |-> lowest,
           diff_pct |-> IF lowest > 0 THEN RoundDiv(10000 * (highest - lowest), lowest) ELSE 0])

\* The text the handler returns, by its parts.
NotFoundText(symbol) ==
    [type |-> "not_found", symbol |-> symbol, rows |-> <<>>, analysis |-> NoAnalysis]

\* The rendering with the empty-list test the wrong way round.
SearchResult_NoNotFound(symbol, found_tokens) ==
    IF found_tokens = <<>> THEN Raise("ValueError")
    ELSE Ok([type |-> "table", symbol |-> symbol, rows |-> found_tokens,
             analysis |-> NoAnalysis])

\* The end of the handler, after the loop: lines 610-636.
SearchResult(symbol, found_tokens) ==
    IF found_tokens = <<>> THEN Ok(NotFoundText(symbol))
    ELSE IF Len(found_tokens) > 1
    THEN LET a == PriceAnalysis([i \in 1..Len(found_tokens) |-> found_tokens[i].price_raw])
         IN IF a.kind = "raise" THEN a
            ELSE Ok([type |-> "table", symbol |-> symbol, rows |-> found_tokens,
                     analysis |-> a.value])
    ELSE Ok([type |-> "table", symbol |-> symbol, rows |-> found_tokens,
             analysis |-> NoAnalysis])

\* The chains in lexicographic order of their keys.
CHAINS_Sorted ==
    <<CHAINS[5], CHAINS[7], CHAINS[2], CHAINS[8], CHAINS[1], CHAINS[6], CHAINS[4], CHAINS[3]>>

\* for chain_name, chain in CHAINS.items()
SearchOrder == CHAINS

\* The handler up to its loop: symbol = validate_symbol(args["symbol"]).
\* upstream and retried count the session.get calls and the backoff sleeps of
\* the client during this call of the handler; cold tells whether the cache
\* was empty when it began; prev is what is remembered of the call before.
HandleSearchStart(t, args) ==
    /\ tool.op = "none"
    /\ pc[t] = "idle"
    /\ LET a == ArgOf(args, "symbol")
           v == IF a.kind = "raise" THEN a ELSE ValidateSymbol(a.value)
       IN tool' = [op |-> "search_token_across_chains", args |-> args,
                   symbol |-> v.value, i |-> 1, visited |-> <<>>, failed |-> <<>>,
                   found_tokens |-> <<>>,
                   upstream |-> 0, retried |-> 0, cold |-> cache = <<>>, prev |-> NoPrev,
                   out |-> IF v.kind = "raise" THEN v ELSE NoOut]
    /\ UNCHANGED <<now, cache, pc, req, lookup, attempt, calls, slept, wakeAt, result,
                   last, lastFetch>>

\* token = await api_client.get_token_by_symbol(symbol, chain.id), up to the
\* first suspension point of its _make_request.
HandleSearchCall(t) ==
    /\ tool.op = "search_token_across_chains"
    /\ tool.out.kind = "pending"
    /\ MakeRequest(t, ListingEndpoint,
                   ListingParams(DefaultStart, LookupLimit, DefaultSort, SearchOrder[tool.i].id))
    /\ tool' = [tool EXCEPT !.visited = Append(@, SearchOrder[tool.i].key)]

\* get_token_by_symbol is over: an exception propagates out of the handler;
\* a token is formatted and appended; after the last chain the result is
\* rendered.
HandleSearchResume(t) ==
    /\ tool.op = "search_token_across_chains"
    /\ Finish(t)
    /\ LET chain == SearchOrder[tool.i]
           token == TokenOutcome(ListingOutcome(result[t]), tool.symbol)
           info == IF token.kind = "return" /\ token.value # None
                   THEN FormatTokenInfo(token.value[1])
                   ELSE Ok(<<>>)
           found == IF token.kind = "return" /\ token.value # None /\ info.kind = "return"
                    THEN Append(tool.found_tokens,
                                [chain |-> chain.name, chain_key |-> chain.key,
                                 symbol |-> chain.symbol,
                                 price_raw |-> info.value.price_raw])
                    ELSE tool.found_tokens
       IN tool' = [tool EXCEPT
                     !.found_tokens = found,
                     !.upstream = @ + calls[t],
                     !.retried = @ + Len(slept[t]),
                     !.failed = IF token.kind = "raise" THEN Append(@, chain.key) ELSE @,
                     !.i = IF token.kind = "raise" \/ info.kind = "raise" THEN @ ELSE @ + 1,
                     !.out = IF token.kind = "raise" THEN token
                             ELSE IF info.kind = "raise" THEN info
                             ELSE IF tool.i = Len(SearchOrder)
                             THEN SearchResult(tool.symbol, found)
                             ELSE NoOut]

\* The same search called again after it has returned.  oldest is the
\* timestamp of the oldest cache entry among those of the chains' listings,
\* all of which the call before has fetched or found.
HandleSearchRepeat(t) ==
    /\ tool.op = "search_token_across_chains"
    /\ tool.out.kind = "return"
    /\ pc[t] = "idle"
    /\ LET stamps ==
             {cache[CacheKeyOf[<<ListingEndpoint,
                                 ListingParams(DefaultStart, LookupLimit, DefaultSort,
                                               SearchOrder[i].id)>>]].timestamp :
                 i \in 1..Len(SearchOrder)}
       IN tool' = [tool EXCEPT
                     !.i = 1, !.visited = <<>>, !.failed = <<>>, !.found_tokens = <<>>,
                     !.upstream = 0, !.retried = 0, !.cold = (cache = <<>>),
                     !.prev = [known |-> TRUE, out |-> tool.out, upstream |-> tool.upstream,
                               oldest |-> CHOOSE x \in stamps : \A y \in stamps : x <= y],
                     !.out = NoOut]
    /\ UNCHANGED <<now, cache, pc, req, lookup, attempt, calls, slept, wakeAt, result,
                   last, lastFetch>>

\* The arguments the search is called with, and what upstream answers.
SearchArgs ==
    {[symbol |-> Str(<<" ", "e", "t", "h", " ">>)],
     [symbol |-> Str(<<"E", "$">>)], [symbol |-> Str(<<>>)], [symbol |-> IntArg(5)],
     [chain |-> Str(<<"b", "a", "s", "e">>)]}
Valued(id, symbol, price, marketCap, volume24h) ==
    [id |-> id, symbol |-> symbol,
     quotes |-> <<[price |-> price, marketCap |-> marketCap, volume24h |-> volume24h]>>]
SearchResponses ==
    {Http(200, ListingEnvelope(<<Valued(3, <<"B", "T", "C">>, 5000, 0, 0)>>)),
     Http(200, ListingEnvelope(<<Valued(3, <<"B", "T", "C">>, 5000, 0, 0),
                                 Valued(1, <<"E", "T", "H">>, 998, 0, 0)>>)),
     Http(200, ListingEnvelope(<<Valued(2, <<"e", "t", "h">>, 1001, 0, 0)>>)),
     Http(200, ListingEnvelope(<<Token(5, <<"E", "T", "H">>)>>)),
     Http(404, JsonNull)}

SearchNext ==
    \/ \E t \in SerialTasks, args \in SearchArgs : HandleSearchStart(t, args)
    \/ \E t \in SerialTasks : HandleSearchCall(t)
    \/ \E t \in SerialTasks, r \in SearchResponses : Respond(t, r) /\ UNCHANGED tool
    \/ \E t \in SerialTasks : HandleSearchResume(t)

SearchSpec == Init /\ [][SearchNext]_vars

\* ------------------------------------------ lookups and searches repeated
\* The lookups of the client for one chain and the search across the chains,
\* called again and again while the clock advances; upstream answers a
\* listing request with a listing or a server error.
RepeatNext ==
    LET Eth == <<"E", "T", "H">>
        Btc == <<"b", "t", "c">>
        Free == tool.op = "search_token_across_chains" => tool.out.kind # "pending"
    IN
    \/ now + TickStep <= Horizon /\ Tick /\ UNCHANGED tool
    \/ \E t \in SerialTasks, symbol \in {Eth, Btc} :
          Free /\ GetTokenBySymbol(t, symbol, CHAINS[8].id)
    \/ \E t \in SerialTasks, symbols \in {<<Eth>>, <<Btc, Eth>>} :
          Free /\ GetMultipleTokens(t, symbols, CHAINS[8].id)
    \/ \E t \in SerialTasks : TokenReturn(t)
    \/ \E t \in SerialTasks : TokensReturn(t)
    \/ \E t \in SerialTasks : HandleSearchStart(t, [symbol |-> Str(<<" ", "e", "t", "h", " ">>)])
    \/ \E t \in SerialTasks : HandleSearchCall(t)
    \/ \E t \in SerialTasks : HandleSearchResume(t)
    \/ \E t \in SerialTasks : HandleSearchRepeat(t)
    \/ \E t \in SerialTasks,
          r \in {Http(200, ListingEnvelope(<<Valued(1, Eth, 998, 0, 0)>>)),
                 Http(500, JsonNull)} : Respond(t, r) /\ UNCHANGED tool
    \/ \E t \in SerialTasks : Wake(t) /\ UNCHANGED tool

RepeatSpec == Init /\ [][RepeatNext]_vars

\* ------------------------------------------------------- the chain registry
\* str < str of two strs of lowercase letters: the first differing character
\* decides, a proper prefix is smaller.
RECURSIVE LexLess(_, _)
LexLess(a, b) ==
    LET LetterRank(ch) == CHOOSE i \in 1..Len(LowerCase) : LowerCase[i] = ch
    IN IF a = <<>> THEN b # <<>>
       ELSE IF b = <<>> THEN FALSE
       ELSE IF Head(a) = Head(b) THEN LexLess(Tail(a), Tail(b))
       ELSE LetterRank(Head(a)) < LetterRank(Head(b))

\* sorted(keys) of the keys of a dict, which are distinct.
RECURSIVE PySorted(_)
PySorted(keys) ==
    IF keys = {} THEN <<>>
    ELSE LET least == CHOOSE k \in keys : \A x \in keys \ {k} : LexLess(k, x)
         IN <<least>> \o PySorted(keys \ {least})

\* The keys in the order of the table, unsorted.
ListSupportedChains_TableOrder == [i \in 1..Len(CHAINS) |-> CHAINS[i].key]

\* chains.list_supported_chains: sorted(CHAINS.keys())
ListSupportedChains == PySorted({CHAINS[i].key : i \in 1..Len(CHAINS)})

\* sep.join(strs)
RECURSIVE Join(_, _)
Join(strs, sep) ==
    IF strs = <<>> THEN <<>>
    ELSE IF Len(strs) = 1 THEN strs[1]
    ELSE strs[1] \o sep \o Join(Tail(strs), sep)

\* validate_chain returning the name as it was passed.
ValidateChain_ReturnsRaw(v) ==
    IF \E i \in 1..Len(CHAINS) : CHAINS[i].key = Strip(StrLower(v.chars))
    THEN Ok(v.chars)
    ELSE [Raise("ValueError") EXCEPT
              !.value = [chain_name |-> v.chars,
                         supported |-> Join(ListSupportedChains, <<",", " ">>)]]

\* chains.validate_chain: normalized = chain_name.lower().strip() ; ValueError
\* unless it is a key of CHAINS, with the message
\* f"Unsupported chain '{chain_name}'. Supported chains: {', '.join(...)}".
\* A value that is not a str has no lower().
ValidateChain(v) ==
    IF v.type # "str" THEN Raise("AttributeError")
    ELSE LET normalized == Strip(StrLower(v.chars))
         IN IF \E i \in 1..Len(CHAINS) : CHAINS[i].key = normalized
            THEN Ok(normalized)
            ELSE [Raise("ValueError") EXCEPT
                      !.value = [chain_name |-> v.chars,
                                 supported |-> Join(ListSupportedChains, <<",", " ">>)]]

\* chains.get_chain: CHAINS.get(chain_name.lower())
GetChain(chain_name) ==
    LET S == {i \in 1..Len(CHAINS) : CHAINS[i].key = StrLower(chain_name)}
    IN IF S = {} THEN None ELSE <<CHAINS[CHOOSE i \in S : TRUE]>>

\* chains.get_chain_by_id: the first chain of the table with that id, or None.
GetChainById(platform_id) ==
    LET S == {i \in 1..Len(CHAINS) : CHAINS[i].id = platform_id}
    IN IF S = {} THEN None ELSE <<CHAINS[CHOOSE i \in S : \A j \in S : i <= j]>>

\* The registry's functions applied to the names and ids callers pass: every
\* letter-case variant of the keys bnb and base, bare or with whitespace on
\* either side, every key as it is, and names and ids that are not registered.
GetChainCall(chain_name) ==
    /\ tool' = [op |-> "get_chain", arg |-> chain_name, out |-> GetChain(chain_name)]
    /\ UNCHANGED <<now, cache, pc, req, lookup, attempt, calls, slept, wakeAt, result,
                   last, lastFetch>>

ValidateChainCall(chain_name) ==
    /\ tool' = [op |-> "validate_chain", arg |-> chain_name,
                out |-> ValidateChain(Str(chain_name))]
    /\ UNCHANGED <<now, cache, pc, req, lookup, attempt, calls, slept, wakeAt, result,
                   last, lastFetch>>

GetChainByIdCall(platform_id) ==
    /\ tool' = [op |-> "get_chain_by_id", arg |-> platform_id,
                out |-> GetChainById(platform_id)]
    /\ UNCHANGED <<now, cache, pc, req, lookup, attempt, calls, slept, wakeAt, result,
                   last, lastFetch>>

ListSupportedChainsCall ==
    /\ tool' = [op |-> "list_supported_chains", arg |-> <<>>, out |-> ListSupportedChains]
    /\ UNCHANGED <<now, cache, pc, req, lookup, attempt, calls, slept, wakeAt, result,
                   last, lastFetch>>

RegistryNames ==
    LET Variants(key) ==
            {[i \in 1..Len(key) |-> IF i \in U THEN UpperOf[key[i]] ELSE key[i]] :
                U \in SUBSET (1..Len(key))}
        Pads == {<<>>, <<" ">>, <<"\t">>}
    IN {l \o s \o r : l \in Pads, r \in Pads,
                        s \in Variants(<<"b", "n", "b">>) \cup Variants(<<"b", "a", "s", "e">>)}
         \cup {CHAINS[i].key : i \in 1..Len(CHAINS)}
         \cup {<<>>, <<" ">>, <<"b", "n">>, <<"b", "n", "b", "b">>, <<"b", " ", "n", "b">>,
               <<"t", "r", "o", "n">>, <<"B", "A", "S", "E", "D">>}

RegistryNext ==
    \/ \E chain_name \in RegistryNames : GetChainCall(chain_name)
    \/ \E chain_name \in RegistryNames : ValidateChainCall(chain_name)
    \/ \E platform_id \in {CHAINS[i].id : i \in 1..Len(CHAINS)} \cup {NoPlatform, 1, 200} :
          GetChainByIdCall(platform_id)
    \/ ListSupportedChainsCall

RegistrySpec == Init /\ [][RegistryNext]_vars

\* ------------------------------------------------ validators.validate_limit
\* int(limit) of a str of decimal digits with an optional sign, surrounded by
\* optional whitespace; ValueError for any other str of the inputs drawn.
RECURSIVE DigitsValue(_, _)
DigitsValue(str, acc) ==
    IF str = <<>> THEN acc
    ELSE DigitsValue(Tail(str),
                     10 * acc + (CHOOSE d \in 0..9 : ToString(d) = Head(str)))
ParseInt(chars) ==
    LET str == Strip(chars)
        signed == str # <<>> /\ Head(str) \in {"+", "-"}
        body == IF signed THEN Tail(str) ELSE str
    IN IF body = <<>> \/ \E i \in 1..Len(body) : body[i] \notin Digits
       THEN Raise("ValueError")
       ELSE Ok(IF signed /\ Head(str) = "-" THEN 0 - DigitsValue(body, 0)
               ELSE DigitsValue(body, 0))

\* validate_limit(limit, min_val, max_val): a value that is not an int goes
\* through int(), whose ValueError or TypeError becomes a ValidationError.
ValidateLimit(v, min_val, max_val) ==
    LET n == CASE v.type = "int" -> Ok(v.n)
               [] v.type = "str" -> ParseInt(v.chars)
               [] OTHER -> Raise("TypeError")
    IN IF n.kind = "raise" THEN Raise("ValidationError")
       ELSE IF n.value < min_val \/ n.value > max_val THEN Raise("ValidationError")
       ELSE n

\* --------------------------------------------- formatters.format_market_cap
\* value / unit printed with two decimals: hundredths of the unit, rounded to
\* the nearest.  Values are whole thousands of dollars, so that 1_000_000_000
\* is 1000000 here, 1_000_000 is 1000 and 1_000 is 1.
FormatMarketCap(value) ==
    IF value >= 1000000 THEN [unit |-> "B", hundredths |-> RoundDiv(100 * value, 1000000)]
    ELSE IF value >= 1000 THEN [unit |-> "M", hundredths |-> RoundDiv(100 * value, 1000)]
    ELSE IF value >= 1 THEN [unit |-> "K", hundredths |-> 100 * value]
    ELSE [unit |-> "", hundredths |-> 100 * 1000 * value]

\* ------------------------------------------- server.handle_compare_chains
MinChains == 2
MaxChains == 5
MinLimit == 1

\* [validate_chain(c) for c in args["chains"]] : the first failure ends it.
RECURSIVE ValidateEach(_)
ValidateEach(items) ==
    IF items = <<>> THEN Ok(<<>>)
    ELSE LET h == ValidateChain(Head(items))
         IN IF h.kind = "raise" THEN h
            ELSE LET r == ValidateEach(Tail(items))
                 IN IF r.kind = "raise" THEN r ELSE Ok(<<h.value>> \o r.value)

\* Iterating a str yields its characters; an int or null is not iterable.
ValidateChains(v) ==
    CASE v.type = "list" -> ValidateEach(v.items)
      [] v.type = "str" -> ValidateEach([i \in 1..Len(v.chars) |-> Str(<<v.chars[i]>>)])
      [] OTHER -> Raise("TypeError")

\* sum(t.get("quotes", [{}])[0].get(field, 0) for t in tokens)
RECURSIVE SumQuotes(_, _)
SumQuotes(tokens, field) ==
    IF tokens = <<>> THEN Ok(0)
    ELSE LET t == Head(tokens)
         IN IF "quotes" \in DOMAIN t /\ t.quotes = <<>> THEN Raise("IndexError")
            ELSE LET quotes == IF "quotes" \in DOMAIN t THEN t.quotes[1] ELSE [none |-> 0]
                     x == IF field \in DOMAIN quotes THEN quotes[field] ELSE 0
                     r == SumQuotes(Tail(tokens), field)
                 IN IF r.kind = "raise" THEN r ELSE Ok(x + r.value)

\* The entry of chain_stats for a chain with a non-empty listing.
ChainStats(chain, tokens) ==
    LET total_mcap == SumQuotes(tokens, "marketCap")
        total_vol == SumQuotes(tokens, "volume24h")
    IN IF total_mcap.kind = "raise" THEN total_mcap
       ELSE IF total_vol.kind = "raise" THEN total_vol
       ELSE Ok([name |-> chain.name, chain_key |-> chain.key, symbol |-> chain.symbol,
                token_count |-> Len(tokens),
                total_mcap |-> FormatMarketCap(total_mcap.value),
                total_vol |-> FormatMarketCap(total_vol.value),
                top_token |-> IF "symbol" \in DOMAIN tokens[1]
                              THEN <<tokens[1].symbol>> ELSE None])

\* if tokens: chain_stats.append({...})
AddStats(chain_stats, chain, tokens) ==
    IF tokens = <<>> THEN Ok(chain_stats)
    ELSE LET row == ChainStats(chain, tokens)
         IN IF row.kind = "raise" THEN row ELSE Ok(Append(chain_stats, row.value))

\* The handler up to its loop: lines 530-541.
HandleCompareStart(t, args) ==
    /\ tool.op = "none"
    /\ pc[t] = "idle"
    /\ LET a == ArgOf(args, "chains")
           names == IF a.kind = "raise" THEN a ELSE ValidateChains(a.value)
           count == IF names.kind = "raise" THEN names
                    ELSE IF Len(names.value) < MinChains \/ Len(names.value) > MaxChains
                    THEN Raise("ValidationError")
                    ELSE names
           limit == IF count.kind = "raise" THEN count
                    ELSE ValidateLimit(IF "limit" \in DOMAIN args THEN args.limit
                                       ELSE IntArg(DefaultCompareLimit),
                                       MinLimit, MaxCompareLimit)
       IN tool' = [op |-> "compare_chains", args |-> args,
                   chain_names |-> count.value,
                   limit |-> IF limit.kind = "raise" THEN 0 ELSE limit.value,
                   i |-> 1, visited |-> <<>>, failed |-> <<>>, chain_stats |-> <<>>,
                   out |-> IF limit.kind = "raise" THEN limit ELSE NoOut]
    /\ UNCHANGED <<now, cache, pc, req, lookup, attempt, calls, slept, wakeAt, result,
                   last, lastFetch>>

\* tokens = await api_client.get_cryptocurrency_listing(limit=limit,
\* platform_id=chain.id), up to the first suspension point of its _make_request.
HandleCompareCall(t) ==
    /\ tool.op = "compare_chains"
    /\ tool.out.kind = "pending"
    /\ LET chain == GetChain(tool.chain_names[tool.i])[1]
       IN /\ MakeRequest(t, ListingEndpoint,
                         ListingParams(DefaultStart, tool.limit, DefaultSort, chain.id))
          /\ tool' = [tool EXCEPT !.visited = Append(@, chain.key)]

\* get_cryptocurrency_listing is over: an exception propagates out of the
\* handler; a non-empty listing adds its entry; after the last chain the
\* table is rendered.
HandleCompareResume(t) ==
    /\ tool.op = "compare_chains"
    /\ Finish(t)
    /\ LET chain == GetChain(tool.chain_names[tool.i])[1]
           tokens == ListingOutcome(result[t])
           stats == IF tokens.kind = "raise" THEN tokens
                    ELSE AddStats(tool.chain_stats, chain, tokens.value)
       IN tool' = [tool EXCEPT
                     !.chain_stats = IF stats.kind = "raise" THEN @ ELSE stats.value,
                     !.failed = IF tokens.kind = "raise" THEN Append(@, chain.key) ELSE @,
                     !.i = IF stats.kind = "raise" THEN @ ELSE @ + 1,
                     !.out = IF stats.kind = "raise" THEN stats
                             ELSE IF tool.i = Len(tool.chain_names)
                             THEN Ok([type |-> "comparison", rows |-> stats.value])
                             ELSE NoOut]

\* The arguments the comparison is called with.
CompareArgs ==
  LET Eth == Str(<<"e", "t", "h", "e", "r", "e", "u", "m">>)
      SpacedBase == Str(<<" ", "B", "a", "s", "e", " ">>)
      Sol == Str(<<"s", "o", "l", "a", "n", "a">>)
  IN
    {[chains |-> ListArg(<<Eth, SpacedBase>>)],
     [chains |-> ListArg(<<Sol, Eth, Eth>>), limit |-> Str(<<"5", "0">>)],
     [chains |-> ListArg(<<Eth>>)],
     [chains |-> ListArg(<<Eth, Str(<<"t", "r", "o", "n">>)>>)],
     [chains |-> ListArg(<<Eth, Sol, Eth, Sol, Eth, Sol>>)],
     [chains |-> ListArg(<<Eth, Sol>>), limit |-> IntArg(51)],
     [chains |-> ListArg(<<Eth, Sol>>), limit |-> NullArg],
     [chains |-> Eth],
     [limit |-> IntArg(10)]}

\* ------------------------------------- the two handlers that aggregate
\* What upstream answers to the listing requests of the two handlers: a
\* listing without tokens, a listing with tokens, a client error, a server
\* error.
AggregationListings ==
    {<<>>,
     <<Valued(1, <<"E", "T", "H">>, 998, 2500000, 900),
       Valued(6, <<"D", "A", "I">>, 1000, 1500, 0)>>}
AggregationResponses ==
    {Http(200, ListingEnvelope(l)) : l \in AggregationListings}
      \cup {Http(404, JsonNull), Http(500, JsonNull)}

AggregationNext ==
    \/ now + TickStep <= Horizon /\ Tick /\ UNCHANGED tool
    \/ \E t \in SerialTasks, args \in SearchArgs : HandleSearchStart(t, args)
    \/ \E t \in SerialTasks : HandleSearchCall(t)
    \/ \E t \in SerialTasks : HandleSearchResume(t)
    \/ \E t \in SerialTasks, args \in CompareArgs : HandleCompareStart(t, args)
    \/ \E t \in SerialTasks : HandleCompareCall(t)
    \/ \E t \in SerialTasks : HandleCompareResume(t)
    \/ \E t \in SerialTasks, r \in AggregationResponses : Respond(t, r) /\ UNCHANGED tool
    \/ \E t \in SerialTasks : Wake(t) /\ UNCHANGED tool

AggregationSpec == Init /\ [][AggregationNext]_vars

\* ---------------------------------------------- validators.validate_symbols
MaxSymbols == 20
RECURSIVE ValidateEachSymbol(_)
ValidateEachSymbol(items) ==
    IF items = <<>> THEN Ok(<<>>)
    ELSE LET h == ValidateSymbol(Head(items))
         IN IF h.kind = "raise" THEN Raise("ValidationError")
            ELSE LET r == ValidateEachSymbol(Tail(items))
                 IN IF r.kind = "raise" THEN r ELSE Ok(<<h.value>> \o r.value)
ValidateSymbols(v) ==
    IF v.type # "list" THEN Raise("ValidationError")
    ELSE IF v.items = <<>> THEN Raise("ValidationError")
    ELSE IF Len(v.items) > MaxSymbols THEN Raise("ValidationError")
    ELSE ValidateEachSymbol(v.items)

\* -------------------------------------------- validators.validate_timeframe
ValidateTimeframe(v) ==
    IF v.type # "str" THEN Raise("ValidationError")
    ELSE LET timeframe == StrLower(Strip(v.chars))
         IN IF timeframe \in {<<"1", "h">>, <<"2", "4", "h">>, <<"7", "d">>, <<"3", "0", "d">>}
            THEN Ok(timeframe)
            ELSE Raise("ValidationError")

\* ------------------------------ server: the handlers with one client call
\* if "chain" in args: chain_name = validate_chain(args["chain"]);
\* platform_id = get_chain(chain_name).id ; platform_id = None otherwise.
PlatformOfArgs(args) ==
    IF "chain" \in DOMAIN args
    THEN LET c == ValidateChain(args.chain)
         IN IF c.kind = "raise" THEN c ELSE Ok(GetChain(c.value)[1].id)
    ELSE Ok(NoPlatform)

\* What a handler has after its validation: symbols, platform_id, limit.
Validated(symbols, platform_id, limit) ==
    Ok([symbols |-> symbols, platform_id |-> platform_id, limit |-> limit])

\* handle_get_token_info, lines 303-311.
GetTokenInfoArgs(args) ==
    LET a == ArgOf(args, "symbol")
        symbol == IF a.kind = "raise" THEN a ELSE ValidateSymbol(a.value)
        platform == IF symbol.kind = "raise" THEN symbol ELSE PlatformOfArgs(args)
    IN IF platform.kind = "raise" THEN platform
       ELSE Validated(<<symbol.value>>, platform.value, LookupLimit)

\* handle_get_token_analytics, lines 423-431.
GetTokenAnalyticsArgs(args) ==
    LET a == ArgOf(args, "symbol")
        symbol == IF a.kind = "raise" THEN a ELSE ValidateSymbol(a.value)
        timeframe == IF symbol.kind = "raise" THEN symbol
                     ELSE ValidateTimeframe(IF "timeframe" \in DOMAIN args THEN args.timeframe
                                            ELSE Str(<<"2", "4", "h">>))
        platform == IF timeframe.kind = "raise" THEN timeframe ELSE PlatformOfArgs(args)
    IN IF platform.kind = "raise" THEN platform
       ELSE Validated(<<symbol.value>>, platform.value, LookupLimit)

\* handle_list_tokens taking the default limit for a limit that does not
\* validate.
ListTokensArgs_LimitDefaulted(args) ==
    LET a == ArgOf(args, "chain")
        chain_name == IF a.kind = "raise" THEN a ELSE ValidateChain(a.value)
        limit == IF chain_name.kind = "raise" THEN chain_name
                 ELSE ValidateLimit(IF "limit" \in DOMAIN args THEN args.limit
                                    ELSE IntArg(DefaultListLimit),
                                    MinLimit, MaxListLimit)
    IN IF chain_name.kind = "raise" THEN chain_name
       ELSE Validated(<<>>, GetChain(chain_name.value)[1].id,
                      IF limit.kind = "raise" THEN DefaultListLimit ELSE limit.value)

\* handle_list_tokens, lines 358-362.
ListTokensArgs(args) ==
    LET a == ArgOf(args, "chain")
        chain_name == IF a.kind = "raise" THEN a ELSE ValidateChain(a.value)
        limit == IF chain_name.kind = "raise" THEN chain_name
                 ELSE ValidateLimit(IF "limit" \in DOMAIN args THEN args.limit
                                    ELSE IntArg(DefaultListLimit),
                                    MinLimit, MaxListLimit)
    IN IF limit.kind = "raise" THEN limit
       ELSE Validated(<<>>, GetChain(chain_name.value)[1].id, limit.value)

\* handle_get_market_metrics, lines 394-401.
GetMarketMetricsArgs(args) ==
    LET a == ArgOf(args, "symbols")
        symbols == IF a.kind = "raise" THEN a ELSE ValidateSymbols(a.value)
        platform == IF symbols.kind = "raise" THEN symbols ELSE PlatformOfArgs(args)
    IN IF platform.kind = "raise" THEN platform
       ELSE Validated(symbols.value, platform.value, LookupLimit)

\* handle_compare_tokens, lines 467-479.
MinTokens == 2
MaxTokens == 10
CompareTokensArgs(args) ==
    LET a == ArgOf(args, "symbols")
        symbols == IF a.kind = "raise" THEN a ELSE ValidateSymbols(a.value)
        count == IF symbols.kind = "raise" THEN symbols
                 ELSE IF Len(symbols.value) < MinTokens \/ Len(symbols.value) > MaxTokens
                 THEN Raise("ValidationError")
                 ELSE symbols
        platform == IF count.kind = "raise" THEN count ELSE PlatformOfArgs(args)
    IN IF platform.kind = "raise" THEN platform
       ELSE Validated(symbols.value, platform.value, LookupLimit)

SingleCallTools ==
    {"get_token_info", "list_tokens", "get_market_metrics", "get_token_analytics",
     "compare_tokens"}

\* What the handler returns or raises once its client call is over.  The
\* formatters take  quotes = token.get("quotes", [{}])[0]  for each token, as
\* format_token_info, format_token_list, format_comparison and
\* format_analytics do: IndexError on the first token whose quotes list is
\* empty.
TextOfTool(name, v, res) ==
    LET listing == ListingOutcome(res)
        found == CASE name \in {"get_token_info", "get_token_analytics"} ->
                        TokenOutcome(listing, v.symbols[1])
                   [] name \in {"get_market_metrics", "compare_tokens"} ->
                        TokensOutcome(listing, v.symbols)
                   [] OTHER -> listing
    IN IF found.kind = "raise" THEN found
       ELSE IF found.value = <<>> THEN Ok([type |-> "not_found", rows |-> <<>>])
       ELSE LET tokens == found.value
            IN IF \E i \in 1..Len(tokens) :
                     "quotes" \in DOMAIN tokens[i] /\ tokens[i].quotes = <<>>
               THEN Raise("IndexError")
               ELSE Ok([type |-> name,
                        rows |-> [i \in 1..Len(tokens) |-> SymbolOf(tokens[i])]])

\* A handler up to its client call: the validation of its arguments.
HandleStart(t, name, args) ==
    /\ tool.op = "none"
    /\ pc[t] = "idle"
    /\ name \in SingleCallTools
    /\ LET v == CASE name = "get_token_info" -> GetTokenInfoArgs(args)
                  [] name = "list_tokens" -> ListTokensArgs(args)
                  [] name = "get_market_metrics" -> GetMarketMetricsArgs(args)
                  [] name = "get_token_analytics" -> GetTokenAnalyticsArgs(args)
                  [] name = "compare_tokens" -> CompareTokensArgs(args)
       IN tool' = [op |-> name, args |-> args, v |-> v.value, called |-> FALSE,
                   out |-> IF v.kind = "raise" THEN v ELSE NoOut]
    /\ UNCHANGED <<now, cache, pc, req, lookup, attempt, calls, slept, wakeAt, result,
                   last, lastFetch>>

\* await api_client.get_token_by_symbol / get_multiple_tokens /
\* get_cryptocurrency_listing, up to the first suspension point.
HandleCall(t) ==
    /\ tool.op \in SingleCallTools
    /\ tool.out.kind = "pending"
    /\ ~tool.called
    /\ MakeRequest(t, ListingEndpoint,
                   ListingParams(DefaultStart, tool.v.limit, DefaultSort, tool.v.platform_id))
    /\ tool' = [tool EXCEPT !.called = TRUE]

\* The client call is over: the handler formats what it got and returns, or
\* the exception leaves the handler.
HandleResume(t) ==
    /\ tool.op \in SingleCallTools
    /\ Finish(t)
    /\ tool' = [tool EXCEPT !.out = TextOfTool(tool.op, tool.v, result[t])]

\* handle_list_chains: the table of the chains by sorted key; no client call.
HandleListChains(t, args) ==
    /\ tool.op = "none"
    /\ pc[t] = "idle"
    /\ tool' = [op |-> "list_chains", args |-> args,
                out |-> Ok([type |-> "chains",
                            rows |-> ListSupportedChains])]
    /\ UNCHANGED <<now, cache, pc, req, lookup, attempt, calls, slept, wakeAt, result,
                   last, lastFetch>>

\* ------------------------------------------------------- server.call_tool
ToolNames ==
    SingleCallTools \cup {"list_chains", "compare_chains", "search_token_across_chains"}

Text(prefix, body) == [kind |-> "text", prefix |-> prefix, body |-> body]

\* The router without its last except clause.
CallToolReply_NoCatchAll(out) ==
    IF out.kind = "return" THEN Text("", out.value)
    ELSE IF out.exc \in {"ValidationError", "ValueError"} THEN Text("Invalid input: ", out.exc)
    ELSE IF out.exc = "CoinMarketCapAPIError" THEN Text("API error: ", out.exc)
    ELSE [kind |-> "propagates", exc |-> out.exc]

\* What call_tool does with the outcome of the handler it awaited: the text of
\* a result, or the message of one of its three except clauses.  An exception
\* that does not derive from Exception passes through; the classes a handler
\* raises all derive from it.
CallToolReply(out) ==
    IF out.kind = "return" THEN Text("", out.value)
    ELSE IF out.exc \in {"ValidationError", "ValueError"} THEN Text("Invalid input: ", out.exc)
    ELSE IF out.exc = "CoinMarketCapAPIError" THEN Text("API error: ", out.exc)
    ELSE IF out.exc \in {"KeyError", "TypeError", "AttributeError", "IndexError",
                         "ZeroDivisionError"}
    THEN Text("An error occurred: ", out.exc)
    ELSE [kind |-> "propagates", exc |-> out.exc]

\* The dispatch of call_tool(name, arguments); for a name that is not a tool,
\* else: raise ValueError(f"Unknown tool: {name}").
CallTool(t, name, args) ==
    CASE name \in SingleCallTools -> HandleStart(t, name, args)
      [] name = "list_chains" -> HandleListChains(t, args)
      [] name = "compare_chains" -> HandleCompareStart(t, args)
      [] name = "search_token_across_chains" -> HandleSearchStart(t, args)
      [] OTHER ->
           /\ tool.op = "none"
           /\ pc[t] = "idle"
           /\ tool' = [op |-> name, args |-> args, out |-> Raise("ValueError")]
           /\ UNCHANGED <<now, cache, pc, req, lookup, attempt, calls, slept, wakeAt,
                          result, last, lastFetch>>

\* The calls the router gets: a tool name and its arguments.
RouterCalls ==
  LET EthSym == Str(<<"e", "t", "h">>)
      DaiSym == Str(<<"D", "a", "i">>)
      Eth == Str(<<"e", "t", "h", "e", "r", "e", "u", "m">>)
      SpacedBase == Str(<<" ", "B", "a", "s", "e", " ">>)
      Tron == Str(<<"t", "r", "o", "n">>)
  IN
    {<<"get_token_info", [symbol |-> EthSym]>>,
     <<"get_token_info", [symbol |-> EthSym, chain |-> SpacedBase]>>,
     <<"get_token_info", [symbol |-> EthSym, chain |-> Tron]>>,
     <<"get_token_info", [symbol |-> Str(<<"E", "$">>)]>>,
     <<"get_token_info", [chain |-> Eth]>>,
     <<"list_tokens", [chain |-> Eth]>>,
     <<"list_tokens", [chain |-> Eth, limit |-> IntArg(101)]>>,
     <<"list_tokens", [chain |-> IntArg(1027)]>>,
     <<"list_tokens", [limit |-> IntArg(20)]>>,
     <<"get_market_metrics", [symbols |-> ListArg(<<EthSym, DaiSym>>)]>>,
     <<"get_market_metrics", [symbols |-> EthSym]>>,
     <<"get_market_metrics", [symbols |-> ListArg(<<>>)]>>,
     <<"get_token_analytics", [symbol |-> EthSym, timeframe |-> Str(<<" ", "7", "D">>)]>>,
     <<"get_token_analytics", [symbol |-> EthSym, timeframe |-> Str(<<"2", "h">>)]>>,
     <<"get_token_analytics", [symbol |-> EthSym, timeframe |-> IntArg(24)]>>,
     <<"compare_tokens", [symbols |-> ListArg(<<EthSym, DaiSym>>), chain |-> Eth]>>,
     <<"compare_tokens", [symbols |-> ListArg(<<EthSym>>)]>>,
     <<"compare_tokens", [symbols |-> ListArg(<<EthSym, IntArg(5)>>)]>>,
     <<"list_chains", [none |-> NullArg]>>,
     <<"get_price", [symbol |-> EthSym]>>,
     <<"", [none |-> NullArg]>>}
      \cup {<<"compare_chains", args>> : args \in CompareArgs}
      \cup {<<"search_token_across_chains", args>> : args \in SearchArgs}

\* What upstream answers: a listing without tokens, a listing with tokens, a
\* listing whose token has an empty quotes list, a client error.
RouterResponses ==
    {Http(200, ListingEnvelope(l)) : l \in AggregationListings}
      \cup {Http(200, ListingEnvelope(<<[id |-> 7, symbol |-> <<"E", "T", "H">>,
                                          quotes |-> <<>>]>>)),
             Http(200, ListingEnvelope(<<[id |-> 8],
                                         Valued(1, <<"E", "T", "H">>, 998, 2500000, 900),
                                         [id |-> 9, symbol |-> <<"D", "A", "I">>,
                                          quotes |-> <<[price |-> 1000]>>]>>)),
             Http(404, JsonNull)}

RouterNext ==
    \/ \E t \in SerialTasks, c \in RouterCalls : CallTool(t, c[1], c[2])
    \/ \E t \in SerialTasks : HandleCall(t)
    \/ \E t \in SerialTasks : HandleResume(t)
    \/ \E t \in SerialTasks : HandleSearchCall(t)
    \/ \E t \in SerialTasks : HandleSearchResume(t)
    \/ \E t \in SerialTasks : HandleCompareCall(t)
    \/ \E t \in SerialTasks : HandleCompareResume(t)
    \/ \E t \in SerialTasks, r \in RouterResponses : Respond(t, r) /\ UNCHANGED tool

RouterSpec == Init /\ [][RouterNext]_vars

\* The server answering one call after another: when a handler has returned or
\* raised, call_tool returns its reply and the next call can come; the client
\* and its cache live on between the calls.  Upstream answers with a listing or
\* a client error.
ServerNext ==
    LET Replied(t) ==
            /\ tool.op # "none"
            /\ tool.out.kind # "pending"
            /\ pc[t] = "idle"
            /\ tool' = NoTool
            /\ UNCHANGED <<now, cache, pc, req, lookup, attempt, calls, slept, wakeAt,
                           result, last, lastFetch>>
    IN
    \/ \E t \in SerialTasks, c \in RouterCalls : CallTool(t, c[1], c[2])
    \/ \E t \in SerialTasks : HandleCall(t)
    \/ \E t \in SerialTasks : HandleResume(t)
    \/ \E t \in SerialTasks : HandleSearchCall(t)
    \/ \E t \in SerialTasks : HandleSearchResume(t)
    \/ \E t \in SerialTasks : HandleCompareCall(t)
    \/ \E t \in SerialTasks : HandleCompareResume(t)
    \/ \E t \in SerialTasks,
          r \in {Http(200, ListingEnvelope(<<Valued(1, <<"E", "T", "H">>, 998, 2500000, 900)>>)),
                 Http(404, JsonNull)} : Respond(t, r) /\ UNCHANGED tool
    \/ \E t \in SerialTasks : Replied(t)

ServerSpec == Init /\ [][ServerNext]_vars

\* ================================================================ claims
\* A step in which task t enters _make_request.
Enters(t) == pc[t] = "idle" /\ pc'[t] # "idle"
\* A step in which task t's awaited session.get completes.
Receives(t) == pc[t] = "await" /\ last'[t].kind # "none"
\* An HTTP 2xx response.
Is2xx(r) == r.kind = "response" /\ r.status \in 200..299
\* A 2xx response whose body is an object with the top-level data field.
WellFormed(r) == Is2xx(r) /\ HasDataField(r.body)

\* C1: a request whose key has a cache entry of age below 60 s (stored by an
\* earlier successful request with that endpoint and those parameters)
\* returns the stored payload, issues no upstream call and no backoff sleep,
\* and leaves the cache as it is.
C1_FreshEntryIsReturnedWithoutNetwork ==
    [][\A t \in Tasks :
        Enters(t) =>
          LET k == req'[t].cache_key
          IN (k \in DOMAIN cache /\ now - cache[k].timestamp < 60) =>
                /\ pc'[t] = "done"
                /\ result'[t].kind = "return"
                /\ result'[t].data = cache[k].data
                /\ calls'[t] = 0
                /\ slept'[t] = <<>>
                /\ cache' = cache]_vars

\* C1 witness: a request answered from an entry stored 30 s earlier.
C1_Witness ==
    \E t \in Tasks :
        /\ pc[t] = "done" /\ result[t].kind = "return" /\ calls[t] = 0
        /\ lookup[t].outcome = "hit" /\ lookup[t].age = 30
        /\ result[t].data = cache[req[t].cache_key].data

\* C2: a request returns a cached payload (no upstream call) only from an
\* entry of age strictly below 60 s; a lookup that finds an entry of age 60 s
\* or more does not return it and removes it; and an entry leaves the cache
\* only through such a lookup of its own key.
C2_ExpiredEntryNeverReturnedAndEvictedLazily ==
    [][/\ \A t \in Tasks :
            Enters(t) =>
              LET k == req'[t].cache_key
              IN /\ (result'[t].kind = "return") =>
                        (k \in DOMAIN cache /\ now - cache[k].timestamp < 60)
                 /\ (k \in DOMAIN cache /\ now - cache[k].timestamp >= 60) =>
                        (k \notin DOMAIN cache' /\ result'[t].kind = "none"
                           /\ pc'[t] = "await")
       /\ \A k \in DOMAIN cache \ DOMAIN cache' :
            /\ now - cache[k].timestamp >= 60
            /\ \E t \in Tasks : Enters(t) /\ req'[t].cache_key = k]_vars

\* C2 witness: a lookup found an entry of age exactly 60 s and the entry is gone.
C2_Witness ==
    \E t \in Tasks :
        /\ pc[t] = "await" /\ lookup[t].outcome = "expired" /\ lookup[t].age = 60
        /\ req[t].cache_key \notin DOMAIN cache

\* C3: when the lookup found the key's entry expired and the first upstream
\* attempt answers 2xx with a well-formed envelope, the invocation ends
\* there with exactly one upstream call, and the cache maps the key to the
\* new payload stamped with the time of the fetch, later than the old stamp.
C3_ExpiredEntryIsRefetchedOnce ==
    [][\A t \in Tasks :
        (Receives(t) /\ attempt[t] = 0 /\ lookup[t].outcome = "expired"
            /\ WellFormed(last'[t])) =>
          LET k == req[t].cache_key
          IN /\ pc'[t] = "done" /\ calls'[t] = 1
             /\ result'[t].kind = "return" /\ result'[t].data = last'[t].body
             /\ k \in DOMAIN cache'
             /\ cache'[k] = [data |-> last'[t].body, timestamp |-> now]
             /\ cache'[k].timestamp > lookup[t].timestamp]_vars

\* C3 witness: an expired entry was refetched with one call and replaced.
C3_Witness ==
    \E t \in Tasks :
        /\ pc[t] = "done" /\ lookup[t].outcome = "expired" /\ calls[t] = 1
        /\ result[t].kind = "return"
        /\ cache[req[t].cache_key] = [data |-> result[t].data, timestamp |-> result[t].at]
        /\ result[t].at >= lookup[t].timestamp + 60

\* A failure of an attempt that is not a 4xx response and not a 2xx response:
\* another unsuccessful status, a transport error or another exception.
RetryableFailure(r) ==
    \/ r.kind \in {"RequestError", "Exception"}
    \/ r.kind = "response" /\ r.status \notin 200..299 /\ r.status \notin 400..499
TerminalMsgs ==
    {"Server error after 3 attempts", "Network error after 3 attempts", "Unexpected error"}

\* C4: once an attempt has returned a status in [400,500) the invocation is
\* over with a client error carrying that status: the calls made are those up
\* to that attempt, every sleep made preceded it, and a 4xx on the first
\* attempt means exactly one upstream call.
C4_ClientErrorFailsImmediately ==
    \A t \in Tasks :
        (last[t].kind = "response" /\ last[t].status \in 400..499) =>
            /\ pc[t] = "done"
            /\ result[t].kind = "raise" /\ result[t].msg = "Client error"
            /\ result[t].status = last[t].status
            /\ calls[t] = attempt[t] + 1
            /\ Len(slept[t]) = attempt[t]
            /\ (attempt[t] = 0 => calls[t] = 1 /\ slept[t] = <<>>)

\* C4 witness: a 404 on the second attempt, after one retryable failure.
C4_Witness ==
    \E t \in Tasks :
        /\ last[t].kind = "response" /\ last[t].status = 404
        /\ attempt[t] = 1 /\ calls[t] = 2 /\ slept[t] = <<1>>
        /\ pc[t] = "done" /\ result[t].msg = "Client error"

\* C5: no invocation makes more than 3 upstream calls; a retryable failure
\* on the third attempt ends the invocation with a terminal error after
\* exactly 3 calls; a retryable failure on an earlier attempt leads to a
\* retry; and every error other than a client error is raised after exactly
\* 3 calls.
C5_RetryableFailuresExhaustAfterThreeCalls ==
    \A t \in Tasks :
        /\ calls[t] <= 3
        /\ (RetryableFailure(last[t]) /\ attempt[t] = 2) =>
              /\ pc[t] = "done" /\ calls[t] = 3
              /\ result[t].kind = "raise" /\ result[t].msg \in TerminalMsgs
        /\ (RetryableFailure(last[t]) /\ attempt[t] < 2) => pc[t] = "sleep"
        /\ (result[t].kind = "raise" /\ result[t].msg # "Client error") => calls[t] = 3

\* C5 witness: a 500 on the third attempt.
C5_Witness ==
    \E t \in Tasks :
        /\ last[t].kind = "response" /\ last[t].status = 500 /\ attempt[t] = 2
        /\ pc[t] = "done" /\ calls[t] = 3 /\ slept[t] = <<1, 2>>
        /\ result[t] = Raised("Server error after 3 attempts", 500, result[t].at)

\* C6, as stated: the sleeps after attempts 0, 1 and 2 last 0 s, 1 s and 2 s.
C6_SleepsAreZeroOneTwo ==
    \A t \in Tasks : \A i \in 1..Len(slept[t]) : slept[t][i] = <<0, 1, 2>>[i]

\* C6, amended: after a retryable failure on attempt 0 or 1 the client sleeps
\* 2^attempt seconds, that is 1 s after attempt 0 and 2 s after attempt 1,
\* and retries only once that time has passed; after a failure on the final
\* attempt (attempt 2) it raises without sleeping.
C6_BackoffIsOneThenTwoSeconds ==
    \A t \in Tasks :
        /\ Len(slept[t]) <= 2
        /\ \A i \in 1..Len(slept[t]) : slept[t][i] = <<1, 2>>[i]
        /\ (RetryableFailure(last[t]) /\ attempt[t] < 2) =>
              /\ pc[t] = "sleep"
              /\ Len(slept[t]) = attempt[t] + 1
              /\ slept[t][attempt[t] + 1] = 2 ^ attempt[t]
        /\ (pc[t] = "await" /\ attempt[t] > 0) => now >= wakeAt[t]
        /\ (RetryableFailure(last[t]) /\ attempt[t] = 2) =>
              /\ pc[t] = "done" /\ result[t].kind = "raise"
              /\ slept[t] = <<1, 2>>

\* C6 witness: the client is in its second sleep, after 1 s and then 2 s.
C6_Witness ==
    \E t \in Tasks :
        pc[t] = "sleep" /\ attempt[t] = 1 /\ slept[t] = <<1, 2>>
            /\ RetryableFailure(last[t])

\* C7: a 2xx response whose body lacks the top-level data field is never in
\* the cache and never returned: it is a retryable failure, followed by a
\* backoff on attempts 0 and 1 and by a terminal error after the third call.
C7_MissingDataIsRetriedNeverCached ==
    /\ \A k \in DOMAIN cache : HasDataField(cache[k].data)
    /\ \A t \in Tasks :
          (Is2xx(last[t]) /\ ~HasDataField(last[t].body)) =>
              /\ result[t].kind # "return"
              /\ attempt[t] < 2 => pc[t] = "sleep"
              /\ attempt[t] = 2 =>
                    (pc[t] = "done" /\ result[t].kind = "raise" /\ calls[t] = 3)

\* C8: every cached payload and every returned value has the top-level data
\* field, and a finished invocation has either returned or raised.
C8_EveryPayloadHasDataField ==
    /\ \A k \in DOMAIN cache : HasDataField(cache[k].data)
    /\ \A t \in Tasks :
          /\ result[t].kind = "return" => HasDataField(result[t].data)
          /\ pc[t] = "done" => result[t].kind \in {"return", "raise"}

\* C9: when an attempt, the first or a later one, answers 2xx with a
\* well-formed envelope, the invocation returns that response, and the cache
\* then maps the request's key to exactly that response stamped with the
\* current time; the entries of all other keys are as before.
C9_SuccessIsCachedAsReturned ==
    [][\A t \in Tasks :
        (Receives(t) /\ WellFormed(last'[t])) =>
          LET k == req[t].cache_key
          IN /\ pc'[t] = "done"
             /\ result'[t].kind = "return" /\ result'[t].data = last'[t].body
             /\ DOMAIN cache' = DOMAIN cache \cup {k}
             /\ cache'[k] = [data |-> last'[t].body, timestamp |-> now]
             /\ \A j \in DOMAIN cache \ {k} : cache'[j] = cache[j]]_vars

\* C9 witness: a success on the third attempt, cached beside another key's entry.
C9_Witness ==
    \E t \in Tasks :
        /\ pc[t] = "done" /\ attempt[t] = 2 /\ calls[t] = 3
        /\ result[t].kind = "return" /\ HasDataField(result[t].data)
        /\ cache[req[t].cache_key] = [data |-> result[t].data, timestamp |-> result[t].at]
        /\ Cardinality(DOMAIN cache) = 2

\* The key function on every two dicts with the same name-value pairs.
KeyIgnoresInsertionOrder ==
    \A e \in Endpoints : \A p, q \in AllParamDicts :
        Pairs(p) = Pairs(q) => GetCacheKey(e, p) = GetCacheKey(e, q)

\* C10: two parameter dicts with the same name-value pairs have the same
\* cache key for every endpoint, whatever their insertion orders; and a
\* request whose endpoint and name-value pairs are those of the latest
\* successful fetch, made less than 60 s after it, is answered from the cache
\* with that fetch's payload and no upstream call.
C10_KeyIgnoresInsertionOrder ==
    [][/\ KeyIgnoresInsertionOrder
       /\ \A t \in Tasks :
            (/\ Enters(t)
             /\ lastFetch # NoFetch
             /\ lastFetch.endpoint = req'[t].endpoint
             /\ Pairs(lastFetch.params) = Pairs(req'[t].params)
             /\ now - lastFetch.at < 60) =>
                /\ pc'[t] = "done" /\ calls'[t] = 0
                /\ result'[t].kind = "return"
                /\ result'[t].data = lastFetch.data]_vars

\* C10 witness: a cache hit for a dict whose insertion order differs from
\* that of the request that fetched the entry.
C10_Witness ==
    \E t \in Tasks :
        /\ pc[t] = "done" /\ calls[t] = 0 /\ lookup[t].outcome = "hit"
        /\ result[t].kind = "return" /\ result[t].data = lastFetch.data
        /\ lastFetch.params # req[t].params
        /\ Pairs(lastFetch.params) = Pairs(req[t].params)

\* The name-value pairs a listing request is expected to carry for the
\* arguments a and the limit lim.
ExpectedListingPairs(a, lim) ==
    {Item("start", a.start), Item("limit", lim), Item("sortBy", a.sort_by),
     Item("sortType", "desc"), Item("convert", "USD"), Item("cryptoType", "all"),
     Item("tagType", "all"), Item("audited", "false"), Item("aux", AuxFields)}
      \cup (IF a.platform_id # 0 THEN {Item("platformId", a.platform_id)} ELSE {})
\* The cache key such a request is expected to have.
ExpectedListingKey(a, lim) ==
    "/cryptocurrency/listing?audited=false&aux=" \o AuxFields
      \o "&convert=USD&cryptoType=all&limit=" \o ToString(lim)
      \o (IF a.platform_id # 0 THEN "&platformId=" \o ToString(a.platform_id) ELSE "")
      \o "&sortBy=" \o a.sort_by \o "&sortType=desc&start=" \o ToString(a.start)
      \o "&tagType=all"

\* C11: a listing call with limit L makes its request with the limit
\* parameter min(L, 500), in the params and in the cache key; so a call with
\* a limit of 500 or more, made less than 60 s after a fetch with limit=500
\* and the same other parameters, is answered from that fetch's cache entry
\* without an upstream call.
C11_ListingLimitIsClamped ==
    [][\A t \in Tasks :
        (Enters(t) /\ tool'.op = "get_cryptocurrency_listing") =>
          LET a == tool'.args
              lim == IF a.limit <= 500 THEN a.limit ELSE 500
          IN /\ Pairs(req'[t].params) = ExpectedListingPairs(a, lim)
             /\ Len(req'[t].params) = Cardinality(ExpectedListingPairs(a, lim))
             /\ req'[t].cache_key = ExpectedListingKey(a, lim)
             /\ (/\ a.limit >= 500
                 /\ lastFetch # NoFetch
                 /\ Pairs(lastFetch.params) = ExpectedListingPairs(a, 500)
                 /\ now - lastFetch.at < 60) =>
                    /\ pc'[t] = "done" /\ calls'[t] = 0
                    /\ result'[t].kind = "return"
                    /\ result'[t].data = lastFetch.data]_vars

\* C11 witness: a limit=1000 listing of platform 199 answered, without an
\* upstream call, from the entry a limit=500 call fetched.
C11_Witness ==
    \E t \in Tasks :
        /\ tool.op = "get_cryptocurrency_listing" /\ tool.args.limit = 1000
        /\ tool.args.platform_id = 199
        /\ tool.prev.known /\ tool.prev.args.limit = 500
        /\ tool.prev.args.platform_id = 199
        /\ pc[t] = "done" /\ calls[t] = 0 /\ lookup[t].outcome = "hit"
        /\ Item("limit", 500) \in Pairs(req[t].params)
        /\ result[t].kind = "return" /\ result[t].data = lastFetch.data

\* Two symbols are equal ignoring case: the same length, and at each place
\* the same character or the two cases of one letter.
SameLetter(x, y) ==
    x = y \/ \E i \in 1..Len(LowerCase) : {x, y} = {LowerCase[i], UpperCase[i]}
SameIgnoringCase(a, b) ==
    Len(a) = Len(b) /\ \A i \in 1..Len(a) : SameLetter(a[i], b[i])
\* The places of the listing l whose record has the symbol sym, ignoring case.
MatchesOf(l, sym) ==
    {i \in 1..Len(l) : "symbol" \in DOMAIN l[i] /\ SameIgnoringCase(l[i].symbol, sym)}
\* A step in which the running client method returns to its caller.
MethodReturns(t, op) == tool.op = op /\ pc[t] = "done" /\ pc'[t] = "idle"

\* C12: get_token_by_symbol requests the listing with limit=500 for its
\* platform; when the listing arrives it returns the first record, in listing
\* order, whose symbol equals the requested one ignoring case, and None when
\* there is none; and a call whose symbol differs only in case from that of
\* the call before it, on the same listing, returns the same record.
C12_FirstMatchIgnoringCase ==
    [][\A t \in Tasks :
        MethodReturns(t, "get_token_by_symbol") =>
          /\ Item("limit", 500) \in Pairs(req[t].params)
          /\ Item("platformId", tool.args.platform_id) \in Pairs(req[t].params)
          /\ (result[t].kind = "return" /\ HasDataField(result[t].data)) =>
                LET l == result[t].data.id
                    m == MatchesOf(l, tool.args.symbol)
                IN /\ tool'.out.kind = "return"
                   /\ m = {} => tool'.out.value = <<>>
                   /\ m # {} =>
                        \E i \in m : /\ \A j \in m : i <= j
                                     /\ tool'.out.value = <<l[i]>>
                   /\ (/\ tool.prev.known
                       /\ tool.prev.seen = tool'.seen
                       /\ SameIgnoringCase(tool.prev.args.symbol, tool.args.symbol)) =>
                          tool'.out = tool.prev.out]_vars

\* C12 witness: ETH looked up after eth in a listing whose second and third
\* records both match; both calls returned the second record.
C12_Witness ==
    /\ tool.op = "get_token_by_symbol" /\ tool.out.kind = "return"
    /\ tool.args.symbol = <<"E", "T", "H">>
    /\ tool.prev.known /\ tool.prev.args.symbol = <<"e", "t", "h">>
    /\ tool.prev.seen = tool.seen
    /\ Len(tool.seen.value) = 3
    /\ MatchesOf(tool.seen.value, tool.args.symbol) = {2, 3}
    /\ tool.seen.value[2] # tool.seen.value[3]
    /\ tool.out.value = <<tool.seen.value[2]>>
    /\ tool.prev.out = tool.out

\* The places of the listing l whose record has one of the symbols, ignoring case.
MatchesOfAny(l, symbols) ==
    UNION {MatchesOf(l, symbols[k]) : k \in 1..Len(symbols)}
\* v lists the records of l at the places I, each once, in the order of l.
IsSelection(v, l, I) ==
    /\ Len(v) = Cardinality(I)
    /\ \E f \in [1..Len(v) -> I] :
          /\ \A a, b \in 1..Len(v) : a < b => f[a] < f[b]
          /\ \A a \in 1..Len(v) : v[a] = l[f[a]]
\* Two lists of symbols name the same symbols, ignoring case and order.
SameSymbols(a, b) ==
    /\ \A i \in 1..Len(a) : \E j \in 1..Len(b) : SameIgnoringCase(a[i], b[j])
    /\ \A j \in 1..Len(b) : \E i \in 1..Len(a) : SameIgnoringCase(a[i], b[j])

\* C13: when the listing arrives, get_multiple_tokens returns the records
\* whose symbol matches, ignoring case, one of the requested symbols: every
\* such record, each once, in listing order, also when records share a
\* symbol; and a call that names the same symbols as the call before it, in
\* another order or another case, on the same listing, returns the same list.
C13_AllMatchesInListingOrder ==
    [][\A t \in Tasks :
        MethodReturns(t, "get_multiple_tokens") =>
          /\ Item("limit", 500) \in Pairs(req[t].params)
          /\ (result[t].kind = "return" /\ HasDataField(result[t].data)) =>
                LET l == result[t].data.id
                IN /\ tool'.out.kind = "return"
                   /\ IsSelection(tool'.out.value, l, MatchesOfAny(l, tool.args.symbols))
                   /\ (/\ tool.prev.known
                       /\ tool.prev.seen = tool'.seen
                       /\ SameSymbols(tool.prev.args.symbols, tool.args.symbols)) =>
                          tool'.out = tool.prev.out]_vars

\* C13 witness: (BTC, Eth) looked up after (ETH, btc) in the listing ETH,
\* BTC, ETH, whose first and third records are different records with one
\* symbol: both calls returned all three records in listing order.
C13_Witness ==
    /\ tool.op = "get_multiple_tokens" /\ tool.out.kind = "return"
    /\ tool.args.symbols = <<<<"B", "T", "C">>, <<"E", "t", "h">>>>
    /\ tool.prev.known
    /\ tool.prev.args.symbols = <<<<"E", "T", "H">>, <<"b", "t", "c">>>>
    /\ tool.prev.seen = tool.seen
    /\ tool.seen.value =
          <<Token(1, <<"E", "T", "H">>), Token(3, <<"B", "T", "C">>),
            Token(5, <<"E", "T", "H">>)>>
    /\ tool.out.value = tool.seen.value
    /\ tool.prev.out = tool.out

\* The keys of the registry, in the order of the CHAINS table.
RegistryKeys == [i \in 1..Len(CHAINS) |-> CHAINS[i].key]
\* The place of a key in the CHAINS table.
PlaceOf(key) == CHOOSE i \in 1..Len(CHAINS) : CHAINS[i].key = key
\* The search handler is running or has ended, with a valid symbol.
Searching == tool.op = "search_token_across_chains" /\ tool.symbol # <<>>
\* The search handler has ended.
SearchEnded == Searching /\ tool.out.kind # "pending"

C17_NoHitIsNotFoundMessage ==
    (SearchEnded /\ tool.failed = <<>> /\ tool.found_tokens = <<>>) =>
        /\ tool.out.kind = "return"
        /\ tool.out.value.type = "not_found"
        /\ tool.out.value.rows = <<>>
        /\ tool.out.value.symbol = tool.symbol
        /\ tool.visited = RegistryKeys

\* C17 witness: a search for ETH that found nothing on any of the eight
\* chains, one of which listed other tokens, and returned the message.
C17_Witness ==
    /\ SearchEnded /\ tool.failed = <<>> /\ tool.found_tokens = <<>>
    /\ Len(tool.visited) = 8
    /\ Cardinality(DOMAIN cache) = 8
    /\ \E k \in DOMAIN cache : cache[k].data.id # <<>>
    /\ tool.out = Ok(NotFoundText(<<"E", "T", "H">>))

\* The raw prices of the rows of a finished search.
RowPrices == {tool.found_tokens[i].price_raw : i \in 1..Len(tool.found_tokens)}

\* C18: a search in which no request failed and at least one chain had a hit
\* returns the rows; with two or more hits it reports the highest and the
\* lowest raw price of the rows and the spread (highest - lowest) / lowest
\* as a percentage (here in hundredths of a per cent, rounded to the
\* nearest), or a spread of 0 when the lowest price is 0, and raises no
\* division error; with one hit it reports no price analysis.
C18_PriceSpreadOverHits ==
    (SearchEnded /\ tool.failed = <<>> /\ tool.found_tokens # <<>>) =>
        /\ tool.out.kind = "return"
        /\ tool.out.value.type = "table"
        /\ tool.out.value.rows = tool.found_tokens
        /\ LET a == tool.out.value.analysis
           IN IF Len(tool.found_tokens) > 1
              THEN /\ a.present
                   /\ a.highest \in RowPrices
                   /\ a.lowest \in RowPrices
                   /\ \A x \in RowPrices : a.lowest <= x /\ x <= a.highest
                   /\ a.lowest = 0 => a.diff_pct = 0
                   /\ a.lowest > 0 =>
                         /\ 2 * (a.diff_pct * a.lowest - (a.highest - a.lowest) * 10000) <= a.lowest
                         /\ 2 * ((a.highest - a.lowest) * 10000 - a.diff_pct * a.lowest) <= a.lowest
              ELSE ~a.present

\* C18 witness: a search that returned hits priced 0.998 and 1.001 and
\* nothing cheaper, with a spread of 0.30 per cent.
C18_Witness ==
    /\ SearchEnded /\ tool.out.kind = "return"
    /\ RowPrices = {998, 1001}
    /\ tool.out.value.analysis.present
    /\ tool.out.value.analysis.highest = 1001
    /\ tool.out.value.analysis.lowest = 998
    /\ tool.out.value.analysis.diff_pct = 30

\* One of the two aggregating handlers is running or has ended.
Aggregating == tool.op \in {"search_token_across_chains", "compare_chains"}

\* C14: in the search across chains and in the comparison of chains, when
\* the upstream request of a chain has failed with a client error or after
\* the last retry, the handler does not end with that exception: it goes on
\* with the remaining chains and returns its result.
C14_FailedChainDoesNotAbort ==
    (Aggregating /\ tool.failed # <<>>) =>
        /\ tool.out.kind # "raise"
        /\ (tool.out.kind = "return") =>
              \A i \in 1..Len(tool.out.value.rows) :
                  \A k \in 1..Len(tool.failed) :
                      tool.out.value.rows[i].chain_key # tool.failed[k]

\* C15: a comparison that returns has one row per requested chain, a chain
\* with an empty listing included.
C15_OneRowPerRequestedChain ==
    (tool.op = "compare_chains" /\ tool.out.kind = "return") =>
        Len(tool.out.value.rows) = Len(tool.chain_names)

\* A call of the router has ended: its handler returned or raised.
CallEnded == tool.op # "none" /\ tool.out.kind # "pending"
Prefixes == {"", "Invalid input: ", "API error: ", "An error occurred: "}

\* C19: whatever the tool name and the arguments, a call of the router that
\* ends, ends with a text: the result of the handler, or a message for a
\* validation failure, for an unknown tool name, for an upstream error, or
\* for any other exception of the handler; no exception leaves the router.
C19_RouterAlwaysReturnsText ==
    CallEnded =>
        LET reply == CallToolReply(tool.out)
        IN /\ reply.kind = "text"
           /\ reply.prefix \in Prefixes
           /\ reply.prefix = "" <=> tool.out.kind = "return"
           /\ tool.op \notin ToolNames => reply.prefix = "Invalid input: "
           /\ (Aggregating /\ tool.failed # <<>>) => reply.prefix = "API error: "
           /\ "symbol" \notin DOMAIN tool.args /\ tool.op = "get_token_info"
                 => reply.prefix = "An error occurred: "

\* C19 witness: get_token_info found a token whose quotes list is empty, the
\* formatter raised IndexError, and the router answered with its message for
\* unexpected errors.
C19_Witness ==
    /\ CallEnded
    /\ tool.op = "get_token_info"
    /\ tool.called
    /\ tool.out = Raise("IndexError")
    /\ CallToolReply(tool.out) = Text("An error occurred: ", "IndexError")

\* A step in which task t is cancelled at its await.
Cancelled(t) == pc[t] \in {"await", "sleep"} /\ last'[t].kind = "CancelledError"
\* Task t has ended by its cancellation and its caller has not resumed yet.
EndedCancelled(t) == pc[t] = "done" /\ last[t].kind = "CancelledError"

\* C20: a cancellation of the task while session.get is in flight or while
\* it sleeps between attempts ends the invocation with the cancellation: the
\* step writes nothing to the cache, issues no call and starts no sleep, and
\* nothing is written or called for that invocation afterwards; and every
\* cache entry that appears or changes is the whole body of a 2xx response
\* just received for that key.
C20_CancelWritesNothing ==
    [][/\ \A t \in Tasks :
            Cancelled(t) =>
              /\ pc'[t] = "done" /\ result'[t].kind = "raise"
              /\ cache' = cache
              /\ calls'[t] = calls[t] /\ slept'[t] = slept[t] /\ attempt'[t] = attempt[t]
       /\ \A t \in Tasks :
            EndedCancelled(t) =>
              /\ cache' = cache
              /\ pc'[t] \in {"done", "idle"}
              /\ calls'[t] <= calls[t]
       /\ \A k \in DOMAIN cache' :
            (k \notin DOMAIN cache \/ cache'[k] # cache[k]) =>
              \E t \in Tasks :
                  /\ Receives(t) /\ Is2xx(last'[t])
                  /\ k = req[t].cache_key
                  /\ cache'[k] = [data |-> last'[t].body, timestamp |-> now]]_vars

\* C20 witness: a task cancelled during its second backoff sleep, after two
\* calls, while the cache holds no entry for its key.
C20_Witness ==
    \E t \in Tasks :
        /\ EndedCancelled(t)
        /\ calls[t] = 2 /\ Len(slept[t]) = 2
        /\ req[t].cache_key \notin DOMAIN cache
        /\ result[t].msg = "CancelledError"

\* ------------------------------------------------------ the chain registry
\* The descriptor registered under a key, as an Optional; None if there is none.
Registered(key) ==
    IF \E i \in 1..Len(CHAINS) : CHAINS[i].key = key THEN <<CHAINS[PlaceOf(key)]>> ELSE None
\* str occurs in text as a run of consecutive characters.
OccursIn(str, text) ==
    \E i \in 0..(Len(text) - Len(str)) : SubSeq(text, i + 1, i + Len(str)) = str

\* C21, as stated: get_chain matches the name without regard to letter case
\* and to surrounding whitespace: a name whose lowercased, trimmed form is a
\* registered key yields that key's descriptor, every other name yields None.
C21_LookupIgnoresCaseAndPadding ==
    tool.op = "get_chain" => tool.out = Registered(Strip(StrLower(tool.arg)))

\* C22: validate_chain returns the lowercased, trimmed name exactly when that
\* is a registered key, and get_chain of what it returns is that key's
\* descriptor; for every other name it raises ValueError with a message that
\* names the rejected input and lists every registered key, separated by ", ".
C22_ValidateNormalizesOrListsKeys ==
    tool.op = "validate_chain" =>
        LET normalized == Strip(StrLower(tool.arg))
        IN IF Registered(normalized) # None
           THEN /\ tool.out = Ok(normalized)
                /\ GetChain(tool.out.value) = Registered(normalized)
           ELSE /\ tool.out.kind = "raise" /\ tool.out.exc = "ValueError"
                /\ tool.out.value.chain_name = tool.arg
                /\ \A i \in 1..Len(CHAINS) : OccursIn(CHAINS[i].key, tool.out.value.supported)
                /\ Len(tool.out.value.supported)
                     = 2 * (Len(CHAINS) - 1)
                         + Len(Join([i \in 1..Len(CHAINS) |-> CHAINS[i].key], <<>>))

\* C22 witness: an unregistered name was rejected with the list of the keys.
C22_Witness ==
    /\ tool.op = "validate_chain"
    /\ tool.arg = <<"t", "r", "o", "n">>
    /\ tool.out.exc = "ValueError"
    /\ OccursIn(<<"s", "o", "l", "a", "n", "a">>, tool.out.value.supported)

\* C23: list_supported_chains returns arbitrum, avalanche, base, bnb,
\* ethereum, optimism, polygon, solana, which are the keys of the table, each
\* once, in lexicographic order; the keys are lowercase; no two chains share a
\* platform id, and get_chain_by_id of the id of a chain returns that chain.
C23_KeysSortedIdsDistinct ==
    /\ tool.op = "list_supported_chains" =>
          /\ tool.out = << <<"a", "r", "b", "i", "t", "r", "u", "m">>,
                           <<"a", "v", "a", "l", "a", "n", "c", "h", "e">>,
                           <<"b", "a", "s", "e">>,
                           <<"b", "n", "b">>,
                           <<"e", "t", "h", "e", "r", "e", "u", "m">>,
                           <<"o", "p", "t", "i", "m", "i", "s", "m">>,
                           <<"p", "o", "l", "y", "g", "o", "n">>,
                           <<"s", "o", "l", "a", "n", "a">> >>
          /\ Len(tool.out) = Len(CHAINS)
          /\ \A i \in 1..Len(CHAINS) : \E j \in 1..Len(tool.out) : tool.out[j] = CHAINS[i].key
          /\ \A i, j \in 1..Len(tool.out) : i < j => LexLess(tool.out[i], tool.out[j])
          /\ \A i \in 1..Len(tool.out) : StrLower(tool.out[i]) = tool.out[i]
    /\ tool.op = "get_chain_by_id" =>
          /\ \A i \in 1..Len(CHAINS) : CHAINS[i].id = tool.arg => tool.out = <<CHAINS[i]>>
          /\ (\A i \in 1..Len(CHAINS) : CHAINS[i].id # tool.arg) => tool.out = None

\* C23 witness: the list of the eight keys was returned.
C23_Witness ==
    /\ tool.op = "list_supported_chains"
    /\ Len(tool.out) = 8
    /\ tool.out[1] = CHAINS[5].key
    /\ tool.out[8] = CHAINS[3].key

\* ------------------------------------------------- the rows of a comparison
\* The sum of a field of the first quote entry over the tokens, a token that
\* has no quote entry or no such field counting as 0.
RECURSIVE SumOrZero(_, _)
SumOrZero(tokens, field) ==
    IF tokens = <<>> THEN 0
    ELSE LET t == Head(tokens)
             x == IF "quotes" \in DOMAIN t /\ t.quotes # <<>> /\ field \in DOMAIN t.quotes[1]
                  THEN t.quotes[1][field] ELSE 0
         IN x + SumOrZero(Tail(tokens), field)
\* A step in which the comparison takes the listing of a chain with tokens.
TakesListing(t) ==
    /\ tool.op = "compare_chains" /\ tool.out.kind = "pending"
    /\ pc[t] = "done" /\ pc'[t] = "idle"
    /\ result[t].kind = "return"
    /\ ListingOutcome(result[t]).value # <<>>

\* C24, as stated: when the comparison takes the listing of a chain, it does
\* not fail, and it adds the row of that chain: the number of the tokens, the
\* sums of marketCap and volume24h of the first quote entry over all tokens
\* with an absent quote or field counted as 0, and the symbol of the first
\* token.
C24_RowAggregatesListing ==
    [][\A t \in SerialTasks :
          TakesListing(t) =>
            LET tokens == ListingOutcome(result[t]).value
                n == Len(tool.chain_stats)
            IN /\ tool'.out.kind # "raise"
               /\ Len(tool'.chain_stats) = n + 1
               /\ SubSeq(tool'.chain_stats, 1, n) = tool.chain_stats
               /\ LET row == tool'.chain_stats[n + 1]
                  IN /\ row.chain_key = tool.chain_names[tool.i]
                     /\ row.token_count = Len(tokens)
                     /\ row.total_mcap = FormatMarketCap(SumOrZero(tokens, "marketCap"))
                     /\ row.total_vol = FormatMarketCap(SumOrZero(tokens, "volume24h"))
                     /\ "symbol" \in DOMAIN tokens[1] => row.top_token = <<tokens[1].symbol>>]_vars

\* --------------------------------------------------- the kinds of failure
\* Task t's invocation of _make_request has ended with an exception.
Failed(t) == pc[t] = "done" /\ result[t].kind = "raise"

\* C25: the CoinMarketCapAPIError a request ends with tells its kind by its
\* message: "Client error" exactly when the last response was a 4xx; "Server
\* error after 3 attempts" or "Network error after 3 attempts" exactly when
\* the third attempt failed with another unsuccessful status or a transport
\* error; "Unexpected error" exactly when the third attempt got a 2xx response
\* without a usable envelope, or another exception.  The three groups of
\* messages are disjoint, and no other message occurs.
C25_FailureTellsItsKind ==
    \A t \in Tasks :
        Failed(t) =>
            LET r == last[t]
                msg == result[t].msg
            IN /\ msg \in {"Client error"} \cup TerminalMsgs
               /\ msg = "Client error" <=> (r.kind = "response" /\ r.status \in 400..499)
               /\ msg = "Server error after 3 attempts"
                    <=> (r.kind = "response" /\ ~Is2xx(r) /\ r.status \notin 400..499)
               /\ msg = "Network error after 3 attempts" <=> r.kind = "RequestError"
               /\ msg = "Unexpected error" <=> (Is2xx(r) \/ r.kind = "Exception")
               /\ Is2xx(r) => ~HasDataField(r.body)
               /\ msg \in TerminalMsgs => calls[t] = MaxRetries /\ Len(slept[t]) = MaxRetries - 1
               /\ msg \in {"Client error", "Server error after 3 attempts"}
                    => result[t].status = r.status

\* C25 witness: after two retried failures the third attempt got a 200
\* response whose body is an object without "data", and the request ended
\* with the message for an unexpected error.
C25_Witness ==
    \E t \in Tasks :
        /\ Failed(t)
        /\ Is2xx(last[t]) /\ last[t].body.type = "object"
        /\ calls[t] = 3 /\ slept[t] = <<1, 2>>
        /\ result[t].msg = "Unexpected error"

\* ------------------------------------------------- success after a retry
\* C27: when the attempt that follows k = 1 or 2 retried failures (and their
\* k backoff sleeps of 1 s and 2 s) gets a 2xx response with a well-formed
\* envelope, the invocation ends there: it has made exactly k + 1 upstream
\* calls, returns that response, has stored it under its key with the
\* current time, and raises nothing.  An invocation that has returned makes
\* no further call and keeps its result until the caller takes it.
C27_SuccessAfterRetriesEndsTheRequest ==
    [][/\ \A t \in Tasks :
            (Receives(t) /\ attempt[t] \in {1, 2} /\ WellFormed(last'[t])) =>
              /\ pc'[t] = "done"
              /\ result'[t] = Returned(last'[t].body, now)
              /\ calls'[t] = attempt[t] + 1 /\ calls[t] = attempt[t] + 1
              /\ slept'[t] = SubSeq(<<1, 2>>, 1, attempt[t])
              /\ req[t].cache_key \in DOMAIN cache'
              /\ cache'[req[t].cache_key] = [data |-> last'[t].body, timestamp |-> now]
       /\ \A t \in Tasks :
            (pc[t] = "done" /\ result[t].kind = "return") =>
              /\ pc'[t] \in {"done", "idle"}
              /\ calls'[t] <= calls[t]
              /\ pc'[t] = "done" => result'[t] = result[t]]_vars

\* C27 witness: a request that returned on its third call, after sleeps of
\* 1 s and 2 s, with its cache entry stamped at the time of the return.
C27_Witness ==
    \E t \in Tasks :
        /\ pc[t] = "done" /\ result[t].kind = "return"
        /\ calls[t] = 3 /\ slept[t] = <<1, 2>>
        /\ WellFormed(last[t])
        /\ result[t].at > 0
        /\ cache[req[t].cache_key] = [data |-> result[t].data, timestamp |-> result[t].at]

\* ------------------------------------------- the cache of a failed request
\* C28: a request that ends with an error has written nothing to the cache.
\* While a request runs, the cache changes only when its initial lookup
\* deletes the expired entry of its own key and when a 2xx response is
\* stored on its return; a step that ends the request with an error, a step
\* into a backoff sleep and a step out of it leave the cache as it is.  So
\* when the request has failed there is no entry under its key, stale or
\* new, and the next request of that key goes to upstream.
C28_FailedRequestWritesNothing ==
    [][/\ \A t \in Tasks :
            Enters(t) =>
              \/ cache' = cache
              \/ /\ req'[t].cache_key \in DOMAIN cache
                 /\ now - cache[req'[t].cache_key].timestamp >= CacheTtl
                 /\ DOMAIN cache' = DOMAIN cache \ {req'[t].cache_key}
                 /\ \A k \in DOMAIN cache' : cache'[k] = cache[k]
       /\ \A t \in Tasks :
            (pc[t] \in {"await", "sleep"} /\ ~(pc'[t] = "done" /\ result'[t].kind = "return"))
              => cache' = cache
       /\ \A t \in Tasks :
            (pc'[t] = "done" /\ result'[t].kind = "raise") =>
              /\ cache' = cache
              /\ req'[t].cache_key \notin DOMAIN cache'
       /\ \A t \in Tasks :
            (Failed(t) /\ pc'[t] = "idle") =>
              /\ cache' = cache
              /\ \A e \in Endpoints, p \in ParamDicts :
                    CacheKeyOf[<<e, p>>] = req[t].cache_key =>
                        ~GetFromCache(cache', CacheKeyOf[<<e, p>>], now).found]_vars

\* C28 witness: a request whose initial lookup deleted the expired entry of
\* its key, failed after three calls, while the entry of another key, stored
\* before, is still in the cache.
C28_Witness ==
    \E t \in Tasks :
        /\ Failed(t)
        /\ lookup[t].outcome = "expired"
        /\ calls[t] = 3
        /\ req[t].cache_key \notin DOMAIN cache
        /\ DOMAIN cache # {}

\* ------------------------------------------------------------ termination
\* Task t's invocation has ended the way the loop body ends it: with the
\* payload returned, or with an error raised inside the loop, after at most
\* 3 calls and at most 2 sleeps; not with the error after the loop.
EndedInLoop(t) ==
    /\ pc[t] = "done"
    /\ result[t].kind \in {"return", "raise"}
    /\ result[t].kind = "raise" => result[t].msg \in {"Client error"} \cup TerminalMsgs
    /\ calls[t] <= MaxRetries
    /\ Len(slept[t]) <= MaxRetries - 1

\* C29: when every awaited upstream call completes and every sleep returns,
\* an invocation that waits for upstream or sleeps ends: it returns a payload
\* or raises one of the errors of the loop body, after at most 3 upstream
\* calls and at most 2 backoff sleeps, and never by running out of the loop.
C29_EveryRequestTerminates ==
    \A t \in SerialTasks : (pc[t] \in {"await", "sleep"}) ~> EndedInLoop(t)

\* C29 witness: an invocation ended with an error after 3 calls and 2 sleeps.
C29_Witness ==
    \E t \in SerialTasks :
        /\ EndedInLoop(t)
        /\ result[t].kind = "raise"
        /\ calls[t] = 3 /\ slept[t] = <<1, 2>>
        /\ last[t].kind = "RequestError"

\* ------------------------------------------------------------ concurrency
\* C26: with two invocations interleaved at their suspension points, the
\* cache only ever changes by whole entries.  An entry that appears or
\* changes is the pair of the body of the 2xx response a task of that key has
\* just received and the time of that step, and that task returns the same
\* body; no step changes the payload or the timestamp of an entry alone.  A
\* request served from the cache returns the payload of the entry whose
\* timestamp it tested, and leaves the cache as it is.  Every entry holds a
\* payload with the data field and a timestamp that is not in the future.
C26_EntriesAreWholeWrites ==
    [][/\ \A k \in DOMAIN cache' :
            (k \notin DOMAIN cache \/ cache'[k] # cache[k]) =>
              \E t \in Tasks :
                  /\ Receives(t) /\ WellFormed(last'[t])
                  /\ req[t].cache_key = k
                  /\ cache'[k] = [data |-> last'[t].body, timestamp |-> now]
                  /\ result'[t] = Returned(last'[t].body, now)
       /\ \A k \in DOMAIN cache \cap DOMAIN cache' :
            cache'[k].data # cache[k].data =>
                cache'[k].timestamp = now /\ lastFetch'.data = cache'[k].data
       /\ \A t \in Tasks :
            (Enters(t) /\ lookup'[t].outcome = "hit") =>
              /\ req'[t].cache_key \in DOMAIN cache
              /\ result'[t].data = cache[req'[t].cache_key].data
              /\ lookup'[t].timestamp = cache[req'[t].cache_key].timestamp
              /\ cache' = cache
       /\ \A k \in DOMAIN cache' :
            /\ DOMAIN cache'[k] = {"data", "timestamp"}
            /\ HasDataField(cache'[k].data)
            /\ cache'[k].timestamp <= now]_vars

\* C26 witness: two invocations of one key were in flight together, both
\* fetched, with different payloads at different times; the cache holds the
\* pair of the later one.
C26_Witness ==
    \E t1, t2 \in Tasks :
        /\ t1 # t2
        /\ pc[t1] = "done" /\ pc[t2] = "done"
        /\ result[t1].kind = "return" /\ result[t2].kind = "return"
        /\ calls[t1] = 1 /\ calls[t2] = 1
        /\ req[t1].cache_key = req[t2].cache_key
        /\ result[t1].data # result[t2].data
        /\ result[t1].at < result[t2].at
        /\ cache[req[t2].cache_key] = [data |-> result[t2].data, timestamp |-> result[t2].at]

\* --------------------------------------------------- one fetch per listing
\* The search handler has returned its result.
SearchReturned == tool.op = "search_token_across_chains" /\ tool.out.kind = "return"

\* C30: get_token_by_symbol and get_multiple_tokens request the same listing
\* (limit 500, the platform of the chain) whatever the symbols are, so a
\* lookup made less than 60 s after the last successful fetch of that listing
\* makes no upstream call and works on the payload of that fetch.  A search
\* across the chains that began with an empty cache and needed no retry has
\* made one upstream call for each of the eight chains when it returns; the
\* same search called again, returning while the oldest of those entries is
\* less than 60 s old, has made none.
C30_RepeatedLookupsShareOneFetch ==
    [][/\ \A t \in SerialTasks :
            (Enters(t) /\ tool'.op \in {"get_token_by_symbol", "get_multiple_tokens"}) =>
              /\ req'[t].endpoint = ListingEndpoint
              /\ req'[t].params
                   = ListingParams(DefaultStart, LookupLimit, DefaultSort,
                                   tool'.args.platform_id)
              /\ (/\ lastFetch.endpoint = req'[t].endpoint
                  /\ Pairs(lastFetch.params) = Pairs(req'[t].params)
                  /\ now - lastFetch.at < CacheTtl)
                    => /\ pc'[t] = "done"
                       /\ calls'[t] = 0
                       /\ result'[t] = Returned(lastFetch.data, now)
       /\ SearchReturned' =>
            /\ (tool'.cold /\ tool'.retried = 0) => tool'.upstream = Len(CHAINS)
            /\ (tool'.prev.known /\ now' - tool'.prev.oldest < CacheTtl)
                  => tool'.upstream = 0]_vars

\* C30 witness: a search that made eight upstream calls was called again and
\* returned without any upstream call, having visited the eight chains.
C30_Witness ==
    /\ SearchReturned
    /\ tool.prev.known
    /\ tool.prev.upstream = 8
    /\ tool.upstream = 0
    /\ Len(tool.visited) = 8
    /\ now - tool.prev.oldest < CacheTtl

\* ------------------------------------------------- overlapping requests
\* Tasks t1 and t2 run requests of one key that both missed the cache: each
\* made its lookup while no fresh entry was stored.
Overlap(t1, t2) ==
    /\ t1 # t2
    /\ pc[t1] # "idle" /\ pc[t2] # "idle"
    /\ req[t1].cache_key = req[t2].cache_key
    /\ lookup[t1].outcome # "hit" /\ lookup[t2].outcome # "hit"

\* C33: two requests of one key that overlap on a cold or expired cache each
\* make their own upstream call; neither waits for or reuses the other's.
\* Each well-formed 2xx response is written over whatever entry the other
\* has stored meanwhile, so the entry is that of the write made last, there
\* is one entry under the key, and the entries of other keys stay.
C33_OverlappingRequestsBothFetch ==
    [][/\ \A t1, t2 \in Tasks :
            Overlap(t1, t2)' => calls'[t1] >= 1 /\ calls'[t2] >= 1
       /\ \A t \in Tasks :
            (Receives(t) /\ WellFormed(last'[t])) =>
              LET k == req[t].cache_key
              IN /\ DOMAIN cache' = DOMAIN cache \cup {k}
                 /\ cache'[k] = [data |-> last'[t].body, timestamp |-> now]
                 /\ \A j \in DOMAIN cache \ {k} : cache'[j] = cache[j]
                 /\ Cardinality({j \in DOMAIN cache' : j = k}) = 1
                 /\ lastFetch'.data = cache'[k].data /\ lastFetch'.at = cache'[k].timestamp
       /\ \A t1, t2 \in Tasks :
            (/\ Overlap(t1, t2)
             /\ pc[t2] = "done" /\ result[t2].kind = "return"
             /\ Receives(t1) /\ WellFormed(last'[t1])) =>
                 /\ cache'[req[t1].cache_key].data = result'[t1].data
                 /\ cache'[req[t1].cache_key].timestamp >= result[t2].at
                 /\ calls'[t1] + calls'[t2] >= 2]_vars

\* C33 witness: the first request found the entry of the key expired and
\* deleted it, the second found none; both fetched, with different payloads,
\* and the cache holds the payload of the later write, not of the earlier.
C33_Witness ==
    \E t1, t2 \in Tasks :
        /\ Overlap(t1, t2)
        /\ lookup[t1].outcome = "expired" /\ lookup[t2].outcome = "miss"
        /\ pc[t1] = "done" /\ pc[t2] = "done"
        /\ result[t1].kind = "return" /\ result[t2].kind = "return"
        /\ calls[t1] = 1 /\ calls[t2] = 1
        /\ result[t1].data # result[t2].data
        /\ cache[req[t1].cache_key].data = lastFetch.data
        /\ lastFetch.data = result[t1].data

\* ------------------------------------------------- cache keys and chains
\* The platform a listing params dict asks for: its platformId item, or
\* NoPlatform when it has none.
PlatformOf(params) ==
    IF \E i \in 1..Len(params) : params[i].k = "platformId"
    THEN (CHOOSE item \in Pairs(params) : item.k = "platformId").v
    ELSE NoPlatform

\* C32: the cache key of a listing request differs from the key of every
\* listing request for another registered chain, and from the key of every
\* unfiltered one when it is for a chain (and conversely), whatever their
\* limits; so a listing call answered from the cache gets a listing that was
\* fetched for its own platform, never one fetched for another chain or for
\* no chain.
C32_KeysSeparateChains ==
    [][\A t \in Tasks :
        (Enters(t) /\ tool'.op = "get_cryptocurrency_listing") =>
          LET a == tool'.args
              k == req'[t].cache_key
          IN /\ PlatformOf(req'[t].params) = a.platform_id
             /\ \A d \in ListingDicts :
                  PlatformOf(d) # a.platform_id => CacheKeyOf[<<ListingEndpoint, d>>] # k
             /\ (pc'[t] = "done" /\ calls'[t] = 0) =>
                  /\ result'[t].kind = "return"
                  /\ result'[t].data = PlatformListing(a.platform_id)
                  /\ \A p \in {NoPlatform} \cup {CHAINS[i].id : i \in 1..Len(CHAINS)} :
                       p # a.platform_id => result'[t].data # PlatformListing(p)]_vars

\* C32 witness: a listing call for Base answered from the cache with the
\* listing fetched for Base, while the cache also holds, under the same
\* limit, the listing fetched for Ethereum and the unfiltered one.
C32_Witness ==
    \E t \in Tasks :
        /\ tool.op = "get_cryptocurrency_listing" /\ tool.args.platform_id = CHAINS[2].id
        /\ pc[t] = "done" /\ calls[t] = 0 /\ lookup[t].outcome = "hit"
        /\ result[t].kind = "return"
        /\ result[t].data = PlatformListing(CHAINS[2].id)
        /\ \A p \in {NoPlatform, CHAINS[1].id} :
             LET k == CacheKeyOf[<<ListingEndpoint,
                                   ListingParams(tool.args.start, tool.args.limit,
                                                 tool.args.sort_by, p)>>]
             IN /\ k \in DOMAIN cache
                /\ cache[k].data = PlatformListing(p)

\* --------------------------------------------- validation before the client
\* The call has an argument one of the validations of its handler rejects:
\* the symbol, the symbols (and their count for compare_tokens), the chain,
\* the chains and their count, the limit against the handler's range, the
\* timeframe.
HasInvalidArgument(name, args) ==
    LET Has(k) == k \in DOMAIN args
        Rejects(out) == out.kind = "raise"
        OutOfRange(out, lo, hi) == out.kind = "return" /\ Len(out.value) \notin lo..hi
    IN \/ /\ name \in {"get_token_info", "get_token_analytics", "search_token_across_chains"}
          /\ Has("symbol") /\ Rejects(ValidateSymbol(args.symbol))
       \/ /\ name \in {"get_market_metrics", "compare_tokens"}
          /\ Has("symbols") /\ Rejects(ValidateSymbols(args.symbols))
       \/ /\ name = "compare_tokens"
          /\ Has("symbols") /\ OutOfRange(ValidateSymbols(args.symbols), 2, 10)
       \/ /\ name \in SingleCallTools
          /\ Has("chain") /\ Rejects(ValidateChain(args.chain))
       \/ /\ name = "compare_chains"
          /\ Has("chains")
          /\ \/ Rejects(ValidateChains(args.chains))
             \/ OutOfRange(ValidateChains(args.chains), 2, 5)
       \/ /\ name = "list_tokens"
          /\ Has("limit") /\ Rejects(ValidateLimit(args.limit, 1, 100))
       \/ /\ name = "compare_chains"
          /\ Has("limit") /\ Rejects(ValidateLimit(args.limit, 1, 50))
       \/ /\ name = "get_token_analytics"
          /\ Has("timeframe") /\ Rejects(ValidateTimeframe(args.timeframe))

\* C31: a tool call with an argument that its handler's validation rejects
\* ends with an exception before any client call: from the step that starts
\* it on, the handler has raised, no request is in progress or was made for
\* it, and the cache and the record of the latest fetch are what they were.
C31_InvalidArgumentMakesNoCall ==
    [][HasInvalidArgument(tool'.op, tool'.args) =>
         /\ tool'.out.kind = "raise"
         /\ \A t \in Tasks : pc'[t] = "idle" /\ calls'[t] = 0 /\ req'[t] = NoReq
         /\ cache' = cache
         /\ lastFetch' = lastFetch
         /\ tool.op = "none"]_vars

\* C31 witness: with listings in the cache from earlier calls, a
\* compare_chains call with valid chains and the limit 51 has raised
\* ValidationError, and no request was made.
C31_Witness ==
    /\ tool.op = "compare_chains"
    /\ HasInvalidArgument(tool.op, tool.args)
    /\ DOMAIN tool.args = {"chains", "limit"}
    /\ ValidateChains(tool.args.chains).kind = "return"
    /\ tool.args.limit = IntArg(51)
    /\ tool.out = Raise("ValidationError")
    /\ tool.visited = <<>>
    /\ cache # <<>> /\ lastFetch # NoFetch
    /\ \A t \in Tasks : pc[t] = "idle" /\ calls[t] = 0

====
